---- MODULE Spec2Model ----
(***************************************************************************)
(* The jeepney D-Bus client: the reply router and its four adapters.       *)
(*                                                                         *)
(*   asyncio    jeepney/integrate/asyncio.py  DBusConnection, DBusRouter   *)
(*   trio       jeepney/integrate/trio.py     DBusConnection, DBusRequester*)
(*   threading  jeepney/io/threading.py       DBusConnection, DBusRouter   *)
(*   blocking   jeepney/io/blocking.py        DBusConnection               *)
(*                                                                         *)
(* One behaviour follows one connection under one adapter.  Application    *)
(* tasks (threads) 1..NumCallers each issue at most one send_and_get_reply *)
(* or send; the receiver consumes the messages the bus sends.              *)
(***************************************************************************)
EXTENDS Integers, Sequences, FiniteSets, TLC

\* ---------------------------------------------------------------- bounds
NumCallers == 2      \* application tasks / threads
MaxRecv    == 2      \* messages received from the bus in one behaviour
MaxFilters == 1      \* filters registered in one behaviour
MaxCap     == 1      \* largest capacity of a filter queue

Callers  == 1..NumCallers
Adapters == {"asyncio", "trio", "threading", "blocking"}

\* ------------------------------------------------------------- messages
\* MessageType (jeepney.low_level); a message is its header's type and its
\* reply_serial field (-1 when the field is absent, as in
\* fields.get(HeaderFields.reply_serial, -1)).
MsgTypes == {"method_call", "method_return", "error", "signal"}
NoSerial == 0 - 1
Msgs     == [type : MsgTypes, reply_serial : {NoSerial} \cup 1..NumCallers]
NoMsg    == [type |-> "none", reply_serial |-> NoSerial]

\* Match rules the application registers: a condition on the message type,
\* "" when the condition is not set (the rule matches every message).
Rules == { [type |-> ""], [type |-> "signal"], [type |-> "method_return"] }

\* rule.matches(msg): a condition that is set equals the header's value.
matches(rule, msg) == rule.type # "" => msg.type = rule.type

\* ------------------------------------------------------------ the state
VARIABLES
    adapter,          \* which adapter this connection runs under
    outgoing_serial,  \* count(start=1): the value next() returns;
                      \* trio: DBusConnection.outgoing_serial (last used)
    reply_futures,    \* _reply_futures / ReplyMatcher._futures:
                      \* serial -> the caller whose Future is registered
    fut,              \* fut[c]: the Future created by caller c
    filters,          \* _filters: filter id -> [rule, cap, q]
    filter_ids,       \* count(): the next filter id
    rcv,              \* receiver task/thread: "running", "cancelling", "done"
    pc,               \* pc[c]: where caller c is in its call
    kind,             \* kind[c]: "sagr" (send_and_get_reply) or "send"
    mtype,            \* mtype[c]: type of the message caller c passes
    serial,           \* serial[c]: serial caller c obtained (0: none)
    outcome,          \* outcome[c]: how the call of c ended: how is "reply",
                      \* "sent" or the exception raised, ctx the exception
                      \* that one replaced (its __context__), "" if none
    result,           \* result[c]: the message returned to c
    wire,             \* messages written to the socket, in order
    send_lock,        \* holder of the connection's send lock (0: free)
    lock_q,           \* tasks queued on the send lock, in order
    nrecv,            \* messages received so far
    \* opening a connection (open_dbus_connection, connect_and_authenticate)
    sock_rx,          \* chunks the bus will hand to the next reads, in order
    sock_tx,          \* what has been written to the socket, in order
    auth_parser,      \* the SASLParser: [buffer, authenticated, error]
    conn_parser,      \* conn.parser: [buf, parsed] - bytes held, bytes
                      \* already turned into messages
    received,         \* every byte read from the socket so far, in order
    unique_name,      \* conn.unique_name ("" while None)
    opc,              \* where the opening call is
    oexc,             \* the exception the opening call raised: [type, arg]
    \* a WrappedFD
    fd,               \* WrappedFD._fd
    closes,           \* os.close calls the wrapper made on the descriptor
    owner,            \* who has to close the descriptor: "wrapper" or the
                      \* receiver of a to_* conversion
    fd_call,          \* the last call on the wrapper: [op, did, exc, ret]
    fd_warned,        \* ResourceWarning issued by __del__
    finalised,        \* __del__ has run
    desc_open,        \* the descriptor is open in the process
    \* the threaded receiver, statement by statement
    rpc,              \* where the receiver thread is inside _dispatch
    rmsg,             \* the message it is dispatching
    riter,            \* its iterator over the filter dict: [used, last]
    rexc,             \* the exception that ended the thread ("" if none)
    \* filter management
    fcall,            \* the last add/remove/close call on a filter:
                      \* [op, id, exc]
    chan,             \* chan[f]: whether the caller passed a queue for
                      \* filter f and whether the filter's queue is that
                      \* very object: [given, same]
    \* stopping a threaded router (open_dbus_router's exit)
    stop_pipe,        \* bytes waiting in the stop pipe (_stop_r)
    spc,              \* where the thread leaving open_dbus_router is
    conn_open,        \* selector and socket are open
    \* message wrappers and proxies
    wcall,            \* the last wrapper / proxy call: [op, arg, exc, ret]
    \* a MatchRule
    conditions,       \* MatchRule.conditions: the items in insertion order
    mr_call,          \* the last call on the rule: [op, exc, ret]
    \* the receiver threads of one threaded connection
    rth,              \* rth[t]: where the receiver thread of router t is
    rcv_lock,         \* holder of DBusConnection.rcv_lock (0: free)
    \* the serial in the header of the message a caller sends
    hdr               \* hdr[c]: the serial serialise() is given (0: none yet)

routerVars == << adapter, outgoing_serial, reply_futures, fut, filters,
                 filter_ids, rcv, pc, kind, mtype, serial, outcome, result,
                 wire, send_lock, lock_q, nrecv >>

openVars == << sock_rx, sock_tx, auth_parser, conn_parser, received,
               unique_name, opc, oexc >>

fdVars == << fd, closes, owner, fd_call, fd_warned, finalised, desc_open >>

raceVars == << rpc, rmsg, riter, rexc >>

filterVars == << fcall, chan >>

stopVars == << stop_pipe, spc, conn_open >>

wrapVars == << wcall >>

ruleVars == << conditions, mr_call >>

thrVars == << rth, rcv_lock >>

hdrVars == << hdr >>

libVars == << filterVars, stopVars, wrapVars, ruleVars, thrVars, hdrVars >>

\* The state outside the router: untouched by the router's operations.
auxVars == << openVars, fdVars, raceVars, libVars >>

vars == << routerVars, auxVars >>

callerVars == << pc, kind, mtype, serial, outcome, result >>

EmptyMap == [x \in {} |-> 0]

\* A Future: st is "pending", "result", "exception" or "cancelled";
\* val the message it holds; task (trio only) "none", "waiting" or
\* "rescheduled" for Future._task and whether reschedule() was called.
NewFuture == [st |-> "pending", val |-> NoMsg, task |-> "none"]

Drop(t, k) == [x \in DOMAIN t \ {k} |-> t[x]]
Put(t, k, v) == [x \in DOMAIN t \cup {k} |-> IF x = k THEN v ELSE t[x]]

Outcome(h) == [how |-> h, ctx |-> ""]

\* SASLParser.__init__ and Parser(): nothing buffered.
NewSASLParser == [buffer |-> << >>, authenticated |-> FALSE, error |-> "None"]
NewParser == [buf |-> << >>, parsed |-> << >>]

\* No exception.
NoExc == [type |-> "", arg |-> << >>]

\* WrappedFD._CLOSED and WrappedFD._CONVERTED.
CLOSED == -1
CONVERTED == -2

\* No connection is being opened.
OpenIdle ==
    /\ sock_rx = << >> /\ sock_tx = << >>
    /\ auth_parser = NewSASLParser /\ conn_parser = NewParser
    /\ received = << >> /\ unique_name = ""
    /\ opc = "none" /\ oexc = NoExc

\* No call made on the wrapper yet.
NoCall == [op |-> "", did |-> "", exc |-> "", ret |-> "None"]

\* No WrappedFD exists.
FdIdle ==
    /\ fd = CLOSED /\ closes = 0 /\ owner = "none"
    /\ fd_call = NoCall /\ fd_warned = FALSE /\ finalised = TRUE
    /\ desc_open = FALSE

\* The receiver thread is between two messages.
\* No iteration over the filter table is going on.
NoIter == [used |-> 0, last |-> 0 - 1]

RaceIdle == rpc = "receive" /\ rmsg = NoMsg /\ riter = NoIter /\ rexc = ""

\* No call made on a filter yet; no router is being stopped; no wrapper
\* called; no MatchRule built.
NoFilterCall == [op |-> "", id |-> 0 - 1, exc |-> ""]

\* A Message of the wrappers: the header's message type and fields ("None"
\* and 0 - 1 for a field that is not set) and the body.  new_header(t):
\* Header(Endianness.little, msg_type, ..., serial=-1, fields={}).
new_header(t) ==
    [type |-> t, path |-> "None", destination |-> "None",
     interface |-> "None", member |-> "None", reply_serial |-> NoSerial,
     error_name |-> "None", signature |-> "None", body |-> << >>]

NoWMsg == new_header("none")
NoAddress == [object_path |-> "None", bus_name |-> "None", interface |-> "None"]
NoArg == [obj |-> NoAddress, member |-> "None", signature |-> "None",
          parent |-> NoSerial, error_name |-> "None", reply |-> NoWMsg,
          via |-> ""]

\* A call that has returned or raised: exc the exception with its name and
\* data attributes, ret what kind of value came back ("None", "Message",
\* "tuple") with the message or the body tuple.
NoWrapCall == [op |-> "", arg |-> NoArg, exc |-> "", name |-> "None",
               data |-> << >>, ret |-> "None", msg |-> NoWMsg,
               body |-> << >>]
NoRuleArg == [path |-> << >>, path_namespace |-> << >>, argno |-> 0,
              kind |-> ""]
NoRuleCall == [op |-> "", arg |-> NoRuleArg, exc |-> "", ret |-> << >>]

FilterIdle == fcall = NoFilterCall /\ chan = EmptyMap

StopIdle == stop_pipe = 0 /\ spc = "none" /\ conn_open = TRUE

WrapIdle == wcall = NoWrapCall

RuleIdle == conditions = << >> /\ mr_call = NoRuleCall

\* No receiver thread has been started.
ThrIdle == rth = << "none", "none" >> /\ rcv_lock = 0

\* No message is being serialised.
HdrIdle == hdr = [c \in Callers |-> 0]

LibIdle == FilterIdle /\ StopIdle /\ WrapIdle /\ RuleIdle /\ ThrIdle /\ HdrIdle

\* A router nobody has used yet (every field but the adapter).
RouterIdle ==
    /\ outgoing_serial = 1
    /\ reply_futures = EmptyMap
    /\ fut = [c \in Callers |-> NewFuture]
    /\ filters = EmptyMap
    /\ filter_ids = 0
    /\ rcv = "done"
    /\ pc = [c \in Callers |-> "idle"]
    /\ kind = [c \in Callers |-> "send"]
    /\ mtype = [c \in Callers |-> "method_call"]
    /\ serial = [c \in Callers |-> 0]
    /\ outcome = [c \in Callers |-> Outcome("none")]
    /\ result = [c \in Callers |-> NoMsg]
    /\ wire = << >>
    /\ send_lock = 0
    /\ lock_q = << >>
    /\ nrecv = 0

Init ==
    /\ adapter \in Adapters
    /\ outgoing_serial = IF adapter = "trio" THEN 0 ELSE 1
    /\ reply_futures = EmptyMap
    /\ fut = [c \in Callers |-> NewFuture]
    /\ filters = EmptyMap
    /\ filter_ids = 0
    /\ rcv = IF adapter = "blocking" THEN "done" ELSE "running"
    /\ pc = [c \in Callers |-> "idle"]
    /\ kind = [c \in Callers |-> "sagr"]
    /\ mtype = [c \in Callers |-> "method_call"]
    /\ serial = [c \in Callers |-> 0]
    /\ outcome = [c \in Callers |-> Outcome("none")]
    /\ result = [c \in Callers |-> NoMsg]
    /\ wire = << >>
    /\ send_lock = 0
    /\ lock_q = << >>
    /\ nrecv = 0
    /\ OpenIdle /\ FdIdle /\ RaceIdle /\ LibIdle


\* Message types the application passes to send / send_and_get_reply.
SendTypes == {"method_call", "signal"}

\* ------------------------------------------------------ shared helpers
\* (a counter that does not advance)
count_stuck(n) == n

\* next(self.outgoing_serial) on itertools.count: the counter afterwards.
\* A Python int: it has no width and never wraps.
count_next(n) == n + 1

\* (a finally clause that leaves the entry in the table)
catch_exit_keep(t, s) == t

\* finally: del self._reply_futures[serial]   (also ReplyMatcher.catch)
catch_exit(t, s) == Drop(t, s)

\* q.put_nowait(msg) inside try/except QueueFull: pass, for every filter
\* whose rule matches: a full queue keeps its content, the message is lost.
put_matching(fs, m) ==
    [f \in DOMAIN fs |->
        IF matches(fs[f].rule, m) /\ Len(fs[f].q) < fs[f].cap
        THEN [fs[f] EXCEPT !.q = Append(@, m)]
        ELSE fs[f]]

\* (a _dispatch without the `return`: the filter loop always runs)
dispatch_filters_fallthrough(delivered, fs, m) == put_matching(fs, m)

\* The filter table after DBusRouter._dispatch: `return` after the reply
\* was given to a waiter, the filter loop otherwise.
dispatch_filters(delivered, fs, m) ==
    IF delivered THEN fs ELSE put_matching(fs, m)

\* The lowest serial of t whose future is already done (0: none).
FirstDone(t, F) ==
    LET bad == {s \in DOMAIN t : F[t[s]].st # "pending"}
    IN  IF bad = {} THEN 0
        ELSE CHOOSE s \in bad : \A r \in bad : s <= r

\* asyncio _receiver, finally: for fut in futures.values():
\*     fut.set_exception(NoReplyError(...)).
\* dict order is registration order, which is serial order.
\* Future.set_exception on a future that is done raises InvalidStateError,
\* which ends the loop: the futures after it are not touched.
aio_drop_all(t, F) ==
    LET lim == FirstDone(t, F)
    IN  [c \in Callers |->
            IF \E s \in DOMAIN t : t[s] = c /\ (lim = 0 \/ s < lim)
            THEN [F[c] EXCEPT !.st = "exception"]
            ELSE F[c]]

\* Leaving send_and_get_reply through its finally clause with outcome o:
\* the del raises KeyError when the table no longer has the serial.
SagrExit(c, o, r) ==
    /\ pc' = [pc EXCEPT ![c] = "done"]
    /\ IF serial[c] \in DOMAIN reply_futures
       THEN /\ reply_futures' = catch_exit(reply_futures, serial[c])
            /\ outcome' = [outcome EXCEPT ![c] = Outcome(o)]
            /\ result' = [result EXCEPT ![c] = r]
       ELSE /\ reply_futures' = reply_futures
            /\ outcome' = [outcome EXCEPT ![c] =
                              [how |-> "KeyError",
                               ctx |-> IF o = "reply" THEN "" ELSE o]]
            /\ result' = result

\* Releasing the send lock (asyncio.Lock / trio.Lock: first come, first
\* served: the lock passes to the first queued task).
Release ==
    IF lock_q = << >>
    THEN send_lock' = 0 /\ lock_q' = lock_q
    ELSE send_lock' = Head(lock_q) /\ lock_q' = Tail(lock_q)

\* The socket after one more serialised message.
Written(c, s, t) == Append(wire, [serial |-> s, by |-> c, type |-> t])

\* ------------------------------------------------------------- asyncio
\* DBusRouter.send_and_get_reply up to its first suspension point.
AioSendAndGetReply(c, t) ==
    /\ adapter = "asyncio" /\ pc[c] = "idle"
    /\ kind' = [kind EXCEPT ![c] = "sagr"]
    /\ mtype' = [mtype EXCEPT ![c] = t]
    /\ UNCHANGED << auxVars, adapter, filters, filter_ids, rcv, nrecv, result >>
    /\ IF t # "method_call"
       THEN /\ pc' = [pc EXCEPT ![c] = "done"]
            /\ outcome' = [outcome EXCEPT ![c] = Outcome("TypeError")]
            /\ UNCHANGED << outgoing_serial, reply_futures, fut, serial, wire,
                            send_lock, lock_q >>
       ELSE IF rcv = "done"
       THEN /\ pc' = [pc EXCEPT ![c] = "done"]
            /\ outcome' = [outcome EXCEPT ![c] = Outcome("RuntimeError")]
            /\ UNCHANGED << outgoing_serial, reply_futures, fut, serial, wire,
                            send_lock, lock_q >>
       ELSE /\ serial' = [serial EXCEPT ![c] = outgoing_serial]
            /\ outgoing_serial' = count_next(outgoing_serial)
            /\ reply_futures' = Put(reply_futures, outgoing_serial, c)
            /\ fut' = [fut EXCEPT ![c] = NewFuture]
            /\ outcome' = outcome
            /\ IF send_lock = 0 /\ lock_q = << >>
               THEN /\ send_lock' = c /\ lock_q' = lock_q
                    /\ wire' = Written(c, outgoing_serial, t)
                    /\ pc' = [pc EXCEPT ![c] = "drain"]
               ELSE /\ send_lock' = send_lock /\ lock_q' = Append(lock_q, c)
                    /\ wire' = wire
                    /\ pc' = [pc EXCEPT ![c] = "lock"]

\* DBusRouter.send -> DBusConnection.send(message), no serial given: the
\* serial is taken inside the lock.
AioSend(c, t) ==
    /\ adapter = "asyncio" /\ pc[c] = "idle"
    /\ kind' = [kind EXCEPT ![c] = "send"]
    /\ mtype' = [mtype EXCEPT ![c] = t]
    /\ UNCHANGED << auxVars, adapter, filters, filter_ids, rcv, nrecv, result,
                    reply_futures, fut, outcome >>
    /\ IF send_lock = 0 /\ lock_q = << >>
       THEN /\ send_lock' = c /\ lock_q' = lock_q
            /\ serial' = [serial EXCEPT ![c] = outgoing_serial]
            /\ outgoing_serial' = count_next(outgoing_serial)
            /\ wire' = Written(c, outgoing_serial, t)
            /\ pc' = [pc EXCEPT ![c] = "drain"]
       ELSE /\ send_lock' = send_lock /\ lock_q' = Append(lock_q, c)
            /\ UNCHANGED << serial, outgoing_serial, wire >>
            /\ pc' = [pc EXCEPT ![c] = "lock"]

\* A task that queued on send_lock is handed the lock and writes.
AioLocked(c) ==
    /\ adapter = "asyncio" /\ pc[c] = "lock" /\ send_lock = c
    /\ pc' = [pc EXCEPT ![c] = "drain"]
    /\ UNCHANGED << auxVars, adapter, filters, filter_ids, rcv, nrecv, result,
                    reply_futures, fut, outcome, kind, mtype, send_lock, lock_q >>
    /\ IF kind[c] = "send"
       THEN /\ serial' = [serial EXCEPT ![c] = outgoing_serial]
            /\ outgoing_serial' = count_next(outgoing_serial)
            /\ wire' = Written(c, outgoing_serial, mtype[c])
       ELSE /\ UNCHANGED << serial, outgoing_serial >>
            /\ wire' = Written(c, serial[c], mtype[c])

\* await self.writer.drain() returns (ok) or raises (the socket failed);
\* the lock is released either way.
AioDrained(c, ok) ==
    /\ adapter = "asyncio" /\ pc[c] = "drain"
    /\ Release
    /\ UNCHANGED << auxVars, adapter, filters, filter_ids, rcv, nrecv, fut,
                    kind, mtype, serial, outgoing_serial, wire >>
    /\ IF kind[c] = "send"
       THEN /\ pc' = [pc EXCEPT ![c] = "done"]
            /\ outcome' = [outcome EXCEPT ![c] = Outcome(IF ok THEN "sent" ELSE "SendError")]
            /\ UNCHANGED << reply_futures, result >>
       ELSE IF ok
       THEN /\ pc' = [pc EXCEPT ![c] = "wait"]
            /\ UNCHANGED << reply_futures, result, outcome >>
       ELSE SagrExit(c, "SendError", NoMsg)

\* return (await reply_fut): the future is done and the task runs again.
AioReplied(c) ==
    /\ adapter = "asyncio" /\ pc[c] = "wait" /\ fut[c].st \in {"result", "exception"}
    /\ IF fut[c].st = "result"
       THEN SagrExit(c, "reply", fut[c].val)
       ELSE SagrExit(c, "NoReplyError", NoMsg)
    /\ UNCHANGED << auxVars, adapter, filters, filter_ids, rcv, nrecv, fut,
                    kind, mtype, serial, outgoing_serial, wire, send_lock, lock_q >>

\* The task running send_and_get_reply is cancelled (task.cancel(), as
\* asyncio.wait_for does on a timeout) while it awaits drain() or the reply.
\* Task.cancel() cancels the future the task waits on at once; the task's
\* finally clause runs when the task is next scheduled.
AioCancel(c) ==
    /\ adapter = "asyncio" /\ kind[c] = "sagr" /\ pc[c] \in {"drain", "wait"}
    /\ pc' = [pc EXCEPT ![c] = "cancelled"]
    /\ fut' = IF pc[c] = "wait" /\ fut[c].st = "pending"
              THEN [fut EXCEPT ![c].st = "cancelled"] ELSE fut
    /\ UNCHANGED << auxVars, adapter, filters, filter_ids, rcv, nrecv,
                    reply_futures, kind, mtype, serial, outcome, result,
                    outgoing_serial, wire, send_lock, lock_q >>

\* The cancelled task runs: CancelledError passes through the finally
\* clauses (send_lock released if held, the waiter entry deleted).
AioCancelled(c) ==
    /\ adapter = "asyncio" /\ pc[c] = "cancelled"
    /\ IF send_lock = c THEN Release ELSE UNCHANGED << send_lock, lock_q >>
    /\ SagrExit(c, "Cancelled", NoMsg)
    /\ UNCHANGED << auxVars, adapter, filters, filter_ids, rcv, nrecv, fut,
                    kind, mtype, serial, outgoing_serial, wire >>

\* DBusRouter.add_filter(rule, channel): channel an asyncio.Queue(cap).
AioAddFilter(rule, cap) ==
    /\ adapter = "asyncio" /\ filter_ids < MaxFilters
    /\ filters' = Put(filters, filter_ids, [rule |-> rule, cap |-> cap, q |-> << >>])
    /\ filter_ids' = filter_ids + 1
    /\ UNCHANGED << auxVars, adapter, outgoing_serial, reply_futures, fut, rcv,
                    pc, kind, mtype, serial, outcome, result, wire, send_lock,
                    lock_q, nrecv >>

\* The application takes the oldest message from a filter queue.
QueueGet(f) ==
    /\ f \in DOMAIN filters /\ filters[f].q # << >>
    /\ filters' = [filters EXCEPT ![f].q = Tail(@)]
    /\ UNCHANGED << auxVars, adapter, outgoing_serial, reply_futures, fut, filter_ids, rcv,
                    pc, kind, mtype, serial, outcome, result, wire,
                    send_lock, lock_q, nrecv >>

\* fut = self._reply_futures.get(rep_serial, None) is not None, for a
\* method_return or error message.
aio_waiter(m) ==
    /\ m.type \in {"method_return", "error"}
    /\ m.reply_serial \in DOMAIN reply_futures

\* _receiver's finally clause: the table is swapped for an empty one and the
\* futures it held get NoReplyError.
AioReceiverStops ==
    /\ rcv' = "done"
    /\ reply_futures' = EmptyMap
    /\ fut' = aio_drop_all(reply_futures, fut)

\* One turn of the loop in DBusRouter._receiver: a message arrives and
\* _dispatch handles it.  fut.set_result on a future that is done
\* (completed or cancelled) raises InvalidStateError, which leaves the loop
\* through the finally clause.
AioDispatch(m) ==
    /\ adapter = "asyncio" /\ rcv = "running" /\ nrecv < MaxRecv
    /\ nrecv' = nrecv + 1
    /\ UNCHANGED << auxVars, adapter, outgoing_serial, filter_ids, callerVars,
                    wire, send_lock, lock_q >>
    /\ IF aio_waiter(m) /\ fut[reply_futures[m.reply_serial]].st # "pending"
       THEN AioReceiverStops /\ filters' = filters
       ELSE /\ filters' = dispatch_filters(aio_waiter(m), filters, m)
            /\ rcv' = rcv /\ reply_futures' = reply_futures
            /\ fut' = IF aio_waiter(m)
                      THEN [fut EXCEPT ![reply_futures[m.reply_serial]] =
                               [@ EXCEPT !.st = "result", !.val = m]]
                      ELSE fut

\* self._conn.receive() raises (EOFError: the bus closed the socket).
AioReceiveFails ==
    /\ adapter = "asyncio" /\ rcv = "running"
    /\ AioReceiverStops
    /\ UNCHANGED << auxVars, adapter, outgoing_serial, filters, filter_ids,
                    callerVars, wire, send_lock, lock_q, nrecv >>

\* DBusRouter.__aexit__: self._rcv_task.cancel().
AioClose ==
    /\ adapter = "asyncio" /\ rcv = "running"
    /\ rcv' = "cancelling"
    /\ UNCHANGED << auxVars, adapter, outgoing_serial, reply_futures, fut, filters,
                    filter_ids, callerVars, wire, send_lock, lock_q,
                    nrecv >>

\* The cancelled receiver task runs: CancelledError is raised at the await
\* in _receiver and the finally clause runs.
AioReceiverCancelled ==
    /\ adapter = "asyncio" /\ rcv = "cancelling"
    /\ AioReceiverStops
    /\ UNCHANGED << auxVars, adapter, outgoing_serial, filters, filter_ids,
                    callerVars, wire, send_lock, lock_q, nrecv >>

\* ---------------------------------------------------------------- trio
\* DBusRequester.is_running: set by _receiver when it starts, cleared in
\* its finally clause.
is_running == rcv # "done"

\* serial = self._conn.outgoing_serial + 1 in send_and_get_reply, and
\* self.outgoing_serial += 1 in DBusConnection.send.
trio_incr(n) == n + 1

\* Future.set(outcome) for every future of the table, in dict order, as the
\* finally clause of _receiver does with Error(NoReplyError).  set() stores
\* the outcome and, when a task waits, reschedules it; rescheduling a task
\* that was already rescheduled fails trio's assertion and ends the loop.
trio_drop_all(t, F) ==
    LET bad == {s \in DOMAIN t : F[t[s]].task = "rescheduled"}
        lim == IF bad = {} THEN 0 ELSE CHOOSE s \in bad : \A r \in bad : s <= r
    IN  [c \in Callers |->
            IF \E s \in DOMAIN t : t[s] = c /\ (lim = 0 \/ s < lim)
            THEN [st |-> "exception", val |-> NoMsg,
                  task |-> IF F[c].task = "waiting" THEN "rescheduled" ELSE F[c].task]
            ELSE F[c]]

\* DBusRequester.send_and_get_reply up to its first checkpoint, which is in
\* trio.Lock.acquire (taken at once when free, queued otherwise).
TrioSendAndGetReply(c, t) ==
    /\ adapter = "trio" /\ pc[c] = "idle"
    /\ kind' = [kind EXCEPT ![c] = "sagr"]
    /\ mtype' = [mtype EXCEPT ![c] = t]
    /\ UNCHANGED << auxVars, adapter, filters, filter_ids, rcv, nrecv, result, wire >>
    /\ IF t # "method_call"
       THEN /\ pc' = [pc EXCEPT ![c] = "done"]
            /\ outcome' = [outcome EXCEPT ![c] = Outcome("TypeError")]
            /\ UNCHANGED << outgoing_serial, reply_futures, fut, serial,
                            send_lock, lock_q >>
       ELSE IF ~ is_running
       THEN /\ pc' = [pc EXCEPT ![c] = "done"]
            /\ outcome' = [outcome EXCEPT ![c] = Outcome("RuntimeError")]
            /\ UNCHANGED << outgoing_serial, reply_futures, fut, serial,
                            send_lock, lock_q >>
       ELSE /\ serial' = [serial EXCEPT ![c] = outgoing_serial + 1]
            /\ reply_futures' = Put(reply_futures, outgoing_serial + 1, c)
            /\ fut' = [fut EXCEPT ![c] = NewFuture]
            /\ outgoing_serial' = trio_incr(outgoing_serial)
            /\ outcome' = outcome
            /\ pc' = [pc EXCEPT ![c] = "lock"]
            /\ IF send_lock = 0 /\ lock_q = << >>
               THEN send_lock' = c /\ lock_q' = lock_q
               ELSE send_lock' = send_lock /\ lock_q' = Append(lock_q, c)

\* DBusRequester.send -> DBusConnection.send.
TrioSend(c, t) ==
    /\ adapter = "trio" /\ pc[c] = "idle"
    /\ kind' = [kind EXCEPT ![c] = "send"]
    /\ mtype' = [mtype EXCEPT ![c] = t]
    /\ serial' = [serial EXCEPT ![c] = trio_incr(outgoing_serial)]
    /\ outgoing_serial' = trio_incr(outgoing_serial)
    /\ pc' = [pc EXCEPT ![c] = "lock"]
    /\ IF send_lock = 0 /\ lock_q = << >>
       THEN send_lock' = c /\ lock_q' = lock_q
       ELSE send_lock' = send_lock /\ lock_q' = Append(lock_q, c)
    /\ UNCHANGED << auxVars, adapter, filters, filter_ids, rcv, nrecv, result, wire,
                    reply_futures, fut, outcome >>

\* The task holds send_lock: socket.send_all(message.serialise()).
TrioLocked(c) ==
    /\ adapter = "trio" /\ pc[c] = "lock" /\ send_lock = c
    /\ pc' = [pc EXCEPT ![c] = "drain"]
    /\ wire' = Written(c, serial[c], mtype[c])
    /\ UNCHANGED << auxVars, adapter, filters, filter_ids, rcv, nrecv, result, serial,
                    outgoing_serial, reply_futures, fut, outcome, kind, mtype,
                    send_lock, lock_q >>

\* send_all returns (ok) or raises; the lock is released; then
\* reply_fut.get(): a checkpoint when the outcome is there already, else
\* the task parks itself in the future.
TrioSent(c, ok) ==
    /\ adapter = "trio" /\ pc[c] = "drain"
    /\ Release
    /\ UNCHANGED << auxVars, adapter, filters, filter_ids, rcv, nrecv, kind, mtype,
                    serial, outgoing_serial, wire >>
    /\ IF kind[c] = "send"
       THEN /\ pc' = [pc EXCEPT ![c] = "done"]
            /\ outcome' = [outcome EXCEPT ![c] = Outcome(IF ok THEN "sent" ELSE "SendError")]
            /\ UNCHANGED << reply_futures, result, fut >>
       ELSE IF ok
       THEN /\ pc' = [pc EXCEPT ![c] = "wait"]
            /\ fut' = IF fut[c].st = "pending"
                      THEN [fut EXCEPT ![c].task = "waiting"] ELSE fut
            /\ UNCHANGED << reply_futures, result, outcome >>
       ELSE SagrExit(c, "SendError", NoMsg) /\ fut' = fut

\* The task runs again: rescheduled by Future.set, or after the checkpoint
\* of get() (which returns the outcome the future holds then).
TrioReplied(c) ==
    /\ adapter = "trio" /\ pc[c] = "wait"
    /\ \/ fut[c].task = "rescheduled"
       \/ fut[c].task = "none" /\ fut[c].st # "pending"
    /\ IF fut[c].st = "result"
       THEN SagrExit(c, "reply", fut[c].val)
       ELSE SagrExit(c, "NoReplyError", NoMsg)
    /\ UNCHANGED << auxVars, adapter, filters, filter_ids, rcv, nrecv, fut, kind, mtype,
                    serial, outgoing_serial, wire, send_lock, lock_q >>

\* The caller's cancel scope is cancelled (trio.fail_after) while the task
\* is in send_all or parked in the future: abort_fn clears Future._task.
TrioCancel(c) ==
    /\ adapter = "trio" /\ kind[c] = "sagr" /\ pc[c] \in {"drain", "wait"}
    /\ fut[c].task # "rescheduled"
    /\ pc' = [pc EXCEPT ![c] = "cancelled"]
    /\ fut' = [fut EXCEPT ![c].task = "none"]
    /\ UNCHANGED << auxVars, adapter, filters, filter_ids, rcv, nrecv, reply_futures,
                    kind, mtype, serial, outcome, result, outgoing_serial, wire,
                    send_lock, lock_q >>

\* The cancelled task runs: Cancelled passes through the finally clauses.
TrioCancelled(c) ==
    /\ adapter = "trio" /\ pc[c] = "cancelled"
    /\ IF send_lock = c THEN Release ELSE UNCHANGED << send_lock, lock_q >>
    /\ SagrExit(c, "Cancelled", NoMsg)
    /\ UNCHANGED << auxVars, adapter, filters, filter_ids, rcv, nrecv, fut, kind, mtype,
                    serial, outgoing_serial, wire >>

\* fut is not None in DBusRequester._dispatch.
trio_waiter(m) ==
    /\ m.type \in {"method_return", "error"}
    /\ m.reply_serial \in DOMAIN reply_futures

\* _receiver's finally clause.
TrioReceiverStops ==
    /\ rcv' = "done"
    /\ reply_futures' = EmptyMap
    /\ fut' = trio_drop_all(reply_futures, fut)

\* One turn of the loop in DBusRequester._receiver.  Method calls go to
\* the DummySendChannel, signals and unmatched replies are discarded.
\* Once the waiting task was rescheduled its Future._outcome is read no
\* more, so the model leaves val as the outcome the task was handed.
TrioDispatch(m) ==
    /\ adapter = "trio" /\ rcv = "running" /\ nrecv < MaxRecv
    /\ nrecv' = nrecv + 1
    /\ UNCHANGED << auxVars, adapter, outgoing_serial, filters, filter_ids, callerVars,
                    wire, send_lock, lock_q >>
    /\ IF trio_waiter(m) /\ fut[reply_futures[m.reply_serial]].task = "rescheduled"
       THEN TrioReceiverStops
       ELSE /\ rcv' = rcv /\ reply_futures' = reply_futures
            /\ fut' = IF trio_waiter(m)
                      THEN [fut EXCEPT ![reply_futures[m.reply_serial]] =
                               [st |-> "result", val |-> m,
                                task |-> IF @.task = "waiting" THEN "rescheduled"
                                         ELSE @.task]]
                      ELSE fut

\* self._conn.receive() raises EndOfChannel.
TrioReceiveFails ==
    /\ adapter = "trio" /\ rcv = "running"
    /\ TrioReceiverStops
    /\ UNCHANGED << auxVars, adapter, outgoing_serial, filters, filter_ids, callerVars,
                    wire, send_lock, lock_q, nrecv >>

\* DBusRequester.aclose: self._rcv_cancel_scope.cancel().
TrioClose ==
    /\ adapter = "trio" /\ rcv = "running"
    /\ rcv' = "cancelling"
    /\ UNCHANGED << auxVars, adapter, outgoing_serial, reply_futures, fut, filters,
                    filter_ids, callerVars, wire, send_lock, lock_q, nrecv >>

\* The receiver task runs with Cancelled raised at its checkpoint.
TrioReceiverCancelled ==
    /\ adapter = "trio" /\ rcv = "cancelling"
    /\ TrioReceiverStops
    /\ UNCHANGED << auxVars, adapter, outgoing_serial, filters, filter_ids, callerVars,
                    wire, send_lock, lock_q, nrecv >>

TrioNext ==
    \/ \E c \in Callers, t \in SendTypes : TrioSendAndGetReply(c, t)
    \/ \E c \in Callers : TrioSend(c, "method_call")
    \/ \E c \in Callers : TrioLocked(c)
    \/ \E c \in Callers, ok \in BOOLEAN : TrioSent(c, ok)
    \/ \E c \in Callers : TrioReplied(c)
    \/ \E c \in Callers : TrioCancel(c)
    \/ \E c \in Callers : TrioCancelled(c)
    \/ \E m \in Msgs : TrioDispatch(m)
    \/ TrioReceiveFails
    \/ TrioClose
    \/ TrioReceiverCancelled

AioNext ==
    \/ \E c \in Callers, t \in SendTypes : AioSendAndGetReply(c, t)
    \/ \E c \in Callers : AioSend(c, "method_call")
    \/ \E c \in Callers : AioLocked(c)
    \/ \E c \in Callers, ok \in BOOLEAN : AioDrained(c, ok)
    \/ \E c \in Callers : AioReplied(c)
    \/ \E c \in Callers : AioCancel(c)
    \/ \E c \in Callers : AioCancelled(c)
    \/ \E r \in Rules, cap \in 1..MaxCap : AioAddFilter(r, cap)
    \/ \E m \in Msgs : AioDispatch(m)
    \/ AioReceiveFails
    \/ AioClose
    \/ AioReceiverCancelled

\* ----------------------------------------------------------- threading
\* ReplyMatcher.dispatch: rep_serial in self._futures.  The message type is
\* not looked at; -1 (no reply_serial field) is never a key.
th_waiter(m) == m.reply_serial \in DOMAIN reply_futures

\* DBusRouter.send_and_get_reply: serial = next(self.conn.outgoing_serial)
\* and ReplyMatcher.catch registers a concurrent.futures.Future.
ThSendAndGetReply(c, t) ==
    /\ adapter = "threading" /\ pc[c] = "idle"
    /\ kind' = [kind EXCEPT ![c] = "sagr"]
    /\ mtype' = [mtype EXCEPT ![c] = t]
    /\ serial' = [serial EXCEPT ![c] = outgoing_serial]
    /\ outgoing_serial' = count_next(outgoing_serial)
    /\ reply_futures' = Put(reply_futures, outgoing_serial, c)
    /\ fut' = [fut EXCEPT ![c] = NewFuture]
    /\ pc' = [pc EXCEPT ![c] = "send"]
    /\ UNCHANGED << auxVars, adapter, filters, filter_ids, rcv, nrecv, outcome, result,
                    wire, send_lock, lock_q >>

\* DBusConnection.send(message): the serial is taken before the lock.
ThSend(c, t) ==
    /\ adapter = "threading" /\ pc[c] = "idle"
    /\ kind' = [kind EXCEPT ![c] = "send"]
    /\ mtype' = [mtype EXCEPT ![c] = t]
    /\ serial' = [serial EXCEPT ![c] = outgoing_serial]
    /\ outgoing_serial' = count_next(outgoing_serial)
    /\ pc' = [pc EXCEPT ![c] = "send"]
    /\ UNCHANGED << auxVars, adapter, filters, filter_ids, rcv, nrecv, outcome, result,
                    wire, send_lock, lock_q, reply_futures, fut >>

\* with self.send_lock: self.sock.sendall(data) -- the thread gets the
\* lock, writes the whole message (ok) or sendall raises, and releases.
ThSendall(c, ok) ==
    /\ adapter = "threading" /\ pc[c] = "send" /\ send_lock = 0
    /\ wire' = IF ok THEN Written(c, serial[c], mtype[c]) ELSE wire
    /\ UNCHANGED << auxVars, adapter, filters, filter_ids, rcv, nrecv, fut, kind, mtype,
                    serial, outgoing_serial, send_lock, lock_q >>
    /\ IF kind[c] = "send"
       THEN /\ pc' = [pc EXCEPT ![c] = "done"]
            /\ outcome' = [outcome EXCEPT ![c] = Outcome(IF ok THEN "sent" ELSE "SendError")]
            /\ UNCHANGED << reply_futures, result >>
       ELSE IF ok
       THEN /\ pc' = [pc EXCEPT ![c] = "wait"]
            /\ UNCHANGED << reply_futures, result, outcome >>
       ELSE SagrExit(c, "SendError", NoMsg)

\* reply_fut.result(timeout=timeout) returns the reply.
ThReplied(c) ==
    /\ adapter = "threading" /\ pc[c] = "wait" /\ fut[c].st = "result"
    /\ SagrExit(c, "reply", fut[c].val)
    /\ UNCHANGED << auxVars, adapter, filters, filter_ids, rcv, nrecv, fut, kind, mtype,
                    serial, outgoing_serial, wire, send_lock, lock_q >>

\* reply_fut.result(timeout=timeout) raises TimeoutError.
ThTimeout(c) ==
    /\ adapter = "threading" /\ pc[c] = "wait" /\ fut[c].st = "pending"
    /\ pc' = [pc EXCEPT ![c] = "cancelled"]
    /\ UNCHANGED << auxVars, adapter, filters, filter_ids, rcv, nrecv, fut, kind, mtype,
                    serial, outgoing_serial, wire, send_lock, lock_q,
                    reply_futures, outcome, result >>

\* The TimeoutError leaves ReplyMatcher.catch: del self._futures[serial].
ThTimedOut(c) ==
    /\ adapter = "threading" /\ pc[c] = "cancelled"
    /\ SagrExit(c, "TimeoutError", NoMsg)
    /\ UNCHANGED << auxVars, adapter, filters, filter_ids, rcv, nrecv, fut, kind, mtype,
                    serial, outgoing_serial, wire, send_lock, lock_q >>

\* DBusRouter.filter(rule, bufsize=n): FilterHandle with Queue(maxsize=n).
ThFilter(rule, bufsize) ==
    /\ adapter = "threading" /\ filter_ids < MaxFilters
    /\ filters' = Put(filters, filter_ids,
                      [rule |-> rule, cap |-> bufsize, q |-> << >>])
    /\ filter_ids' = filter_ids + 1
    /\ UNCHANGED << auxVars, adapter, outgoing_serial, reply_futures, fut, rcv, callerVars,
                    wire, send_lock, lock_q, nrecv >>

\* One turn of the loop in DBusRouter._receiver.  Future.set_result on a
\* future that is finished raises InvalidStateError; _receiver catches
\* ReceiveStopped only, so the thread ends, and nothing tells the waiters.
\* After interrupt() the thread still handles what the socket delivers
\* ahead of the stop pipe.
ThDispatch(m) ==
    /\ adapter = "threading" /\ rcv \in {"running", "cancelling"}
    /\ nrecv < MaxRecv
    /\ nrecv' = nrecv + 1
    /\ UNCHANGED << auxVars, adapter, outgoing_serial, filter_ids, callerVars, wire,
                    send_lock, lock_q, reply_futures >>
    /\ IF th_waiter(m) /\ fut[reply_futures[m.reply_serial]].st # "pending"
       THEN rcv' = "done" /\ UNCHANGED << fut, filters >>
       ELSE /\ rcv' = rcv
            /\ filters' = dispatch_filters(th_waiter(m), filters, m)
            /\ fut' = IF th_waiter(m)
                      THEN [fut EXCEPT ![reply_futures[m.reply_serial]] =
                               [@ EXCEPT !.st = "result", !.val = m]]
                      ELSE fut

\* self.conn.receive() raises ConnectionResetError: the thread ends.
ThReceiveFails ==
    /\ adapter = "threading" /\ rcv \in {"running", "cancelling"}
    /\ rcv' = "done"
    /\ UNCHANGED << auxVars, adapter, outgoing_serial, reply_futures, fut, filters,
                    filter_ids, callerVars, wire, send_lock, lock_q, nrecv >>

\* DBusRouter.stop: self.conn.interrupt().
ThStop ==
    /\ adapter = "threading" /\ rcv = "running"
    /\ rcv' = "cancelling"
    /\ UNCHANGED << auxVars, adapter, outgoing_serial, reply_futures, fut, filters,
                    filter_ids, callerVars, wire, send_lock, lock_q, nrecv >>

\* receive() raises ReceiveStopped; _receiver passes and returns.
ThReceiverStopped ==
    /\ adapter = "threading" /\ rcv = "cancelling"
    /\ rcv' = "done"
    /\ UNCHANGED << auxVars, adapter, outgoing_serial, reply_futures, fut, filters,
                    filter_ids, callerVars, wire, send_lock, lock_q, nrecv >>

ThNext ==
    \/ \E c \in Callers, t \in SendTypes : ThSendAndGetReply(c, t)
    \/ \E c \in Callers : ThSend(c, "method_call")
    \/ \E c \in Callers, ok \in BOOLEAN : ThSendall(c, ok)
    \/ \E c \in Callers : ThReplied(c)
    \/ \E c \in Callers : ThTimeout(c)
    \/ \E c \in Callers : ThTimedOut(c)
    \/ \E r \in Rules, n \in 1..MaxCap : ThFilter(r, n)
    \/ \E m \in Msgs : ThDispatch(m)
    \/ ThReceiveFails
    \/ ThStop
    \/ ThReceiverStopped

\* ------------------------------------------------------------ blocking
\* One thread: a call runs to its end before the next one starts.
BlkFree == \A c \in Callers : pc[c] \in {"idle", "done"}

\* (a deque that refuses a new item when it is full)
deque_keep_full(fs, m) ==
    [f \in DOMAIN fs |->
        IF matches(fs[f].rule, m) /\ Len(fs[f].q) < fs[f].cap
        THEN [fs[f] EXCEPT !.q = Append(@, m)]
        ELSE fs[f]]

\* filter.queue.append(msg) for every filter whose rule matches, on a
\* deque(maxlen=cap): a full deque discards its oldest item.
deque_append(fs, m) ==
    [f \in DOMAIN fs |->
        IF matches(fs[f].rule, m)
        THEN [fs[f] EXCEPT !.q = IF Len(@) < fs[f].cap THEN Append(@, m)
                                 ELSE Append(Tail(@), m)]
        ELSE fs[f]]

\* DBusConnection.send_and_get_reply: serial = next(self.outgoing_serial),
\* self.send_message(message, serial=serial) (sendall returns or raises).
BlkSendAndGetReply(c, t, ok) ==
    /\ adapter = "blocking" /\ pc[c] = "idle" /\ BlkFree
    /\ kind' = [kind EXCEPT ![c] = "sagr"]
    /\ mtype' = [mtype EXCEPT ![c] = t]
    /\ serial' = [serial EXCEPT ![c] = outgoing_serial]
    /\ outgoing_serial' = count_next(outgoing_serial)
    /\ wire' = IF ok THEN Written(c, outgoing_serial, t) ELSE wire
    /\ pc' = [pc EXCEPT ![c] = IF ok THEN "recv" ELSE "done"]
    /\ outcome' = IF ok THEN outcome ELSE [outcome EXCEPT ![c] = Outcome("SendError")]
    /\ UNCHANGED << auxVars, adapter, filters, filter_ids, rcv, nrecv, result,
                    send_lock, lock_q, reply_futures, fut >>

\* DBusConnection.send(message).
BlkSend(c, t, ok) ==
    /\ adapter = "blocking" /\ pc[c] = "idle" /\ BlkFree
    /\ kind' = [kind EXCEPT ![c] = "send"]
    /\ mtype' = [mtype EXCEPT ![c] = t]
    /\ serial' = [serial EXCEPT ![c] = outgoing_serial]
    /\ outgoing_serial' = count_next(outgoing_serial)
    /\ wire' = IF ok THEN Written(c, outgoing_serial, t) ELSE wire
    /\ pc' = [pc EXCEPT ![c] = "done"]
    /\ outcome' = [outcome EXCEPT ![c] = Outcome(IF ok THEN "sent" ELSE "SendError")]
    /\ UNCHANGED << auxVars, adapter, filters, filter_ids, rcv, nrecv, result,
                    send_lock, lock_q, reply_futures, fut >>

\* One turn of the loop in send_and_get_reply: a message is received; it is
\* returned when its reply_serial is the call's serial, whatever its type,
\* and given to the filters otherwise.  (self.router is the legacy Router;
\* no call of this adapter registers anything with it.)
BlkReceive(c, m) ==
    /\ adapter = "blocking" /\ pc[c] = "recv" /\ nrecv < MaxRecv
    /\ nrecv' = nrecv + 1
    /\ UNCHANGED << auxVars, adapter, filter_ids, rcv, kind, mtype, serial,
                    outgoing_serial, wire, send_lock, lock_q, reply_futures, fut >>
    /\ IF m.reply_serial = serial[c]
       THEN /\ pc' = [pc EXCEPT ![c] = "done"]
            /\ outcome' = [outcome EXCEPT ![c] = Outcome("reply")]
            /\ result' = [result EXCEPT ![c] = m]
            /\ filters' = filters
       ELSE /\ filters' = deque_append(filters, m)
            /\ UNCHANGED << pc, outcome, result >>

\* self.receive(timeout=timeout) raises TimeoutError.
BlkTimeout(c) ==
    /\ adapter = "blocking" /\ pc[c] = "recv"
    /\ pc' = [pc EXCEPT ![c] = "done"]
    /\ outcome' = [outcome EXCEPT ![c] = Outcome("TimeoutError")]
    /\ UNCHANGED << auxVars, adapter, filters, filter_ids, rcv, nrecv, result, kind, mtype,
                    serial, outgoing_serial, wire, send_lock, lock_q,
                    reply_futures, fut >>

\* DBusConnection.recv_messages: receive one message and apply filters.
BlkRecvMessages(m) ==
    /\ adapter = "blocking" /\ BlkFree /\ nrecv < MaxRecv
    /\ nrecv' = nrecv + 1
    /\ filters' = deque_append(filters, m)
    /\ UNCHANGED << auxVars, adapter, filter_ids, rcv, callerVars, outgoing_serial, wire,
                    send_lock, lock_q, reply_futures, fut >>

\* DBusConnection.filter(rule, bufsize=n): FilterHandle with deque(maxlen=n).
BlkFilter(rule, bufsize) ==
    /\ adapter = "blocking" /\ filter_ids < MaxFilters
    /\ filters' = Put(filters, filter_ids,
                      [rule |-> rule, cap |-> bufsize, q |-> << >>])
    /\ filter_ids' = filter_ids + 1
    /\ UNCHANGED << auxVars, adapter, outgoing_serial, reply_futures, fut, rcv, callerVars,
                    wire, send_lock, lock_q, nrecv >>

BlkNext ==
    \/ \E c \in Callers, t \in SendTypes, ok \in BOOLEAN : BlkSendAndGetReply(c, t, ok)
    \/ \E c \in Callers, ok \in BOOLEAN : BlkSend(c, "method_call", ok)
    \/ \E c \in Callers, m \in Msgs : BlkReceive(c, m)
    \/ \E c \in Callers : BlkTimeout(c)
    \/ \E m \in Msgs : BlkRecvMessages(m)
    \/ \E r \in Rules, n \in 1..MaxCap : BlkFilter(r, n)

Next ==
    \/ AioNext
    \/ TrioNext
    \/ ThNext
    \/ BlkNext
    \/ \E f \in DOMAIN filters : QueueGet(f)

Spec == Init /\ [][Next]_vars

\* ------------------------------------------------ the serial counter
\* The counter on its own, over its whole range.  2^32 is beyond the
\* integers of the model checker, so a serial is held here as two 16-bit
\* halves: [hi, lo] stands for hi * 2^16 + lo.
Half == 2^16
MaxAssigned == 3     \* serials assigned in one behaviour

Wide(h, l) == [hi |-> h, lo |-> l]

\* next(self.outgoing_serial) / self.outgoing_serial += 1 on a Python int:
\* plus one, with the carry into the upper half and no upper limit.
wide_next(n) ==
    IF n.lo = Half - 1 THEN Wide(n.hi + 1, 0) ELSE Wide(n.hi, n.lo + 1)

\* The value fits the header's unsigned 32-bit serial field.
FitsU32(n) == n.hi \in 0..(Half - 1) /\ n.lo \in 0..(Half - 1)

\* Counters of connections that have sent messages for a while: every
\* positive value is reached by that many sends.
StartSerials ==
    {Wide(h, l) : h \in {0, 1, Half - 2, Half - 1},
                  l \in {1, 2, Half - 3, Half - 2, Half - 1}}

InitSerial ==
    /\ adapter \in {"count", "trio"}
    /\ outgoing_serial \in StartSerials
    /\ reply_futures = EmptyMap
    /\ fut = [c \in Callers |-> NewFuture]
    /\ filters = EmptyMap
    /\ filter_ids = 0
    /\ rcv = "done"
    /\ pc = [c \in Callers |-> "idle"]
    /\ kind = [c \in Callers |-> "send"]
    /\ mtype = [c \in Callers |-> "method_call"]
    /\ serial = [c \in Callers |-> 0]
    /\ outcome = [c \in Callers |-> Outcome("none")]
    /\ result = [c \in Callers |-> NoMsg]
    /\ wire = << >>
    /\ send_lock = 0
    /\ lock_q = << >>
    /\ nrecv = 0
    /\ OpenIdle /\ FdIdle /\ RaceIdle /\ LibIdle

\* DBusConnection.send without a serial, asyncio / threading / blocking:
\* serial = next(self.outgoing_serial); the serial goes into the header.
CountAssign ==
    /\ adapter = "count" /\ Len(wire) < MaxAssigned
    /\ wire' = Append(wire, outgoing_serial)
    /\ outgoing_serial' = wide_next(outgoing_serial)
    /\ UNCHANGED << auxVars, adapter, reply_futures, fut, filters, filter_ids, rcv,
                    callerVars, send_lock, lock_q, nrecv >>

\* trio DBusConnection.send: self.outgoing_serial += 1;
\* message.header.serial = self.outgoing_serial.
TrioAssign ==
    /\ adapter = "trio" /\ Len(wire) < MaxAssigned
    /\ outgoing_serial' = wide_next(outgoing_serial)
    /\ wire' = Append(wire, wide_next(outgoing_serial))
    /\ UNCHANGED << auxVars, adapter, reply_futures, fut, filters, filter_ids, rcv,
                    callerVars, send_lock, lock_q, nrecv >>

NextSerial == CountAssign \/ TrioAssign

SpecSerial == InitSerial /\ [][NextSerial]_vars

\* ------------------------------------------- concurrent senders, by part
\* DBusConnection.send called by several tasks or threads of one
\* connection, with the serialised message leaving in MsgParts pieces
\* (sendall / send_all loop until everything is written).  wire holds the
\* pieces, [serial, by, part], in the order they reach the socket.
MsgParts == 2

WireAdapters == {"threading", "asyncio", "trio"}

InitWire ==
    /\ adapter \in WireAdapters
    /\ outgoing_serial = IF adapter = "trio" THEN 0 ELSE 1
    /\ reply_futures = EmptyMap
    /\ fut = [c \in Callers |-> NewFuture]
    /\ filters = EmptyMap
    /\ filter_ids = 0
    /\ rcv = "done"
    /\ pc = [c \in Callers |-> "idle"]
    /\ kind = [c \in Callers |-> "send"]
    /\ mtype = [c \in Callers |-> "method_call"]
    /\ serial = [c \in Callers |-> 0]
    /\ outcome = [c \in Callers |-> Outcome("none")]
    /\ result = [c \in Callers |-> NoMsg]
    /\ wire = << >>
    /\ send_lock = 0
    /\ lock_q = << >>
    /\ nrecv = 0
    /\ OpenIdle /\ FdIdle /\ RaceIdle /\ LibIdle

\* Serials handed out so far on this connection.
Assigned == IF adapter = "trio" THEN outgoing_serial ELSE outgoing_serial - 1

\* Pieces of the message of caller c that are on the wire.
PartsSent(c) ==
    Cardinality({i \in DOMAIN wire :
                    wire[i].by = c /\ wire[i].serial = serial[c]})

Piece(c, s, k) == [serial |-> s, by |-> c, part |-> k]

\* message.serialise(serial) as one run of pieces.
Serialised(c, s) == [k \in 1..MsgParts |-> Piece(c, s, k)]

\* (a send that writes without waiting for the lock)
lock_ignored(l) == TRUE

\* threading.Lock.acquire returns only while no thread holds the lock.
lock_free(l) == l = 0

wireFixed == << auxVars, adapter, reply_futures, fut, filters, filter_ids,
                rcv, kind, mtype, outcome, result, nrecv >>

\* threading DBusConnection.send: serial = next(self.outgoing_serial) and
\* message.serialise(serial=serial), both before the lock is asked for.
ThWireSend(c) ==
    /\ adapter = "threading" /\ pc[c] \in {"idle", "done"}
    /\ Assigned < MaxAssigned
    /\ serial' = [serial EXCEPT ![c] = outgoing_serial]
    /\ outgoing_serial' = count_next(outgoing_serial)
    /\ pc' = [pc EXCEPT ![c] = "lock"]
    /\ UNCHANGED << wireFixed, wire, send_lock, lock_q >>

\* with self.send_lock: whichever waiting thread the scheduler picks.
ThWireAcquire(c) ==
    /\ adapter = "threading" /\ pc[c] = "lock"
    /\ lock_free(send_lock)
    /\ send_lock' = c
    /\ pc' = [pc EXCEPT ![c] = "write"]
    /\ UNCHANGED << wireFixed, wire, serial, outgoing_serial, lock_q >>

\* self.sock.sendall(data): one more piece; the lock is released after
\* the last one.
ThWireSendall(c) ==
    /\ adapter = "threading" /\ pc[c] = "write"
    /\ wire' = Append(wire, Piece(c, serial[c], PartsSent(c) + 1))
    /\ IF PartsSent(c) + 1 = MsgParts
       THEN pc' = [pc EXCEPT ![c] = "done"] /\ send_lock' = 0
       ELSE pc' = pc /\ send_lock' = send_lock
    /\ UNCHANGED << wireFixed, serial, outgoing_serial, lock_q >>

\* asyncio DBusConnection.send: async with self.send_lock; when the lock
\* is free and nobody queues, the serial is taken and the whole message
\* handed to writer.write without a suspension point.
AioWireSend(c) ==
    /\ adapter = "asyncio" /\ pc[c] \in {"idle", "done"}
    /\ Assigned + Len(lock_q) < MaxAssigned
    /\ IF send_lock = 0 /\ lock_q = << >>
       THEN /\ send_lock' = c /\ lock_q' = lock_q
            /\ serial' = [serial EXCEPT ![c] = outgoing_serial]
            /\ outgoing_serial' = count_next(outgoing_serial)
            /\ wire' = wire \o Serialised(c, outgoing_serial)
            /\ pc' = [pc EXCEPT ![c] = "drain"]
       ELSE /\ send_lock' = send_lock /\ lock_q' = Append(lock_q, c)
            /\ UNCHANGED << serial, outgoing_serial, wire >>
            /\ pc' = [pc EXCEPT ![c] = "lock"]
    /\ UNCHANGED wireFixed

\* The queued task is given the lock: serial, writer.write.
AioWireLocked(c) ==
    /\ adapter = "asyncio" /\ pc[c] = "lock" /\ send_lock = c
    /\ serial' = [serial EXCEPT ![c] = outgoing_serial]
    /\ outgoing_serial' = count_next(outgoing_serial)
    /\ wire' = wire \o Serialised(c, outgoing_serial)
    /\ pc' = [pc EXCEPT ![c] = "drain"]
    /\ UNCHANGED << wireFixed, send_lock, lock_q >>

\* await self.writer.drain() returns; the lock is released.
AioWireDrained(c) ==
    /\ adapter = "asyncio" /\ pc[c] = "drain"
    /\ pc' = [pc EXCEPT ![c] = "done"]
    /\ Release
    /\ UNCHANGED << wireFixed, wire, serial, outgoing_serial >>

\* trio DBusConnection.send: self.outgoing_serial += 1, the serial goes
\* into the header, then async with self.send_lock (no checkpoint before
\* the task holds the lock or is queued for it).
TrioWireSend(c) ==
    /\ adapter = "trio" /\ pc[c] \in {"idle", "done"}
    /\ Assigned < MaxAssigned
    /\ serial' = [serial EXCEPT ![c] = trio_incr(outgoing_serial)]
    /\ outgoing_serial' = trio_incr(outgoing_serial)
    /\ pc' = [pc EXCEPT ![c] = "lock"]
    /\ IF send_lock = 0 /\ lock_q = << >>
       THEN send_lock' = c /\ lock_q' = lock_q
       ELSE send_lock' = send_lock /\ lock_q' = Append(lock_q, c)
    /\ UNCHANGED << wireFixed, wire >>

\* await self.socket.send_all(...): one more piece; leaving the with
\* block after the last one passes the lock on.
TrioWireSendAll(c) ==
    /\ adapter = "trio" /\ pc[c] = "lock" /\ send_lock = c
    /\ wire' = Append(wire, Piece(c, serial[c], PartsSent(c) + 1))
    /\ IF PartsSent(c) + 1 = MsgParts
       THEN pc' = [pc EXCEPT ![c] = "done"] /\ Release
       ELSE pc' = pc /\ UNCHANGED << send_lock, lock_q >>
    /\ UNCHANGED << wireFixed, serial, outgoing_serial >>

\* The task is cancelled inside send_all: the pieces written stay on the
\* socket and the with block releases the lock.
TrioWireCancelled(c) ==
    /\ adapter = "trio" /\ pc[c] = "lock" /\ send_lock = c
    /\ pc' = [pc EXCEPT ![c] = "done"]
    /\ Release
    /\ UNCHANGED << wireFixed, wire, serial, outgoing_serial >>

NextWire ==
    \/ \E c \in Callers : ThWireSend(c)
    \/ \E c \in Callers : ThWireAcquire(c)
    \/ \E c \in Callers : ThWireSendall(c)
    \/ \E c \in Callers : AioWireSend(c)
    \/ \E c \in Callers : AioWireLocked(c)
    \/ \E c \in Callers : AioWireDrained(c)
    \/ \E c \in Callers : TrioWireSend(c)
    \/ \E c \in Callers : TrioWireSendAll(c)
    \/ \E c \in Callers : TrioWireCancelled(c)

SpecWire == InitWire /\ [][NextWire]_vars

\* ------------------------------------------------ opening a connection
\* open_dbus_connection (blocking, threading, asyncio) and trio's
\* connect_and_authenticate, with SASLParser.  Bytes are tokens: "OK" is
\* the three bytes 'OK ', "CR" "LF" the line end, "g" and "R" other bytes
\* of a line, "H" the serialised Hello reply and "s" another serialised
\* message.
MaxChunks == 2

CRLF == << "CR", "LF" >>

\* b'\r\n' in b
HasCRLF(b) == \E i \in 1..(Len(b) - 1) : b[i] = "CR" /\ b[i + 1] = "LF"

\* Where the first b'\r\n' of b starts.
FirstCRLF(b) ==
    CHOOSE i \in 1..(Len(b) - 1) :
        /\ b[i] = "CR" /\ b[i + 1] = "LF"
        /\ \A j \in 1..(i - 1) : ~ (b[j] = "CR" /\ b[j + 1] = "LF")

\* line.startswith(b'OK ')
StartsWithOK(line) == line # << >> /\ line[1] = "OK"

\* if auth_parser.error: None and b'' are false.
Truthy(err) == err # "None" /\ err # << >>

\* SASLParser.process_line
process_line(p, line) ==
    IF StartsWithOK(line)
    THEN [p EXCEPT !.authenticated = TRUE]
    ELSE [p EXCEPT !.error = line]

\* The while loop of SASLParser.feed: its condition looks at data, the
\* bytes just fed; unpacking the split of a buffer without b'\r\n' raises
\* ValueError and leaves the buffer as it is.
RECURSIVE feed_loop(_, _)
feed_loop(p, data) ==
    IF HasCRLF(data) /\ ~ p.authenticated
    THEN IF ~ HasCRLF(p.buffer)
         THEN [p EXCEPT !.exc = "ValueError"]
         ELSE LET i == FirstCRLF(p.buffer)
                  line == SubSeq(p.buffer, 1, i - 1)
                  rest == SubSeq(p.buffer, i + 2, Len(p.buffer))
              IN  feed_loop(process_line([p EXCEPT !.buffer = rest], line),
                            data)
    ELSE p

\* SASLParser.feed(data): the parser afterwards, and in exc the exception
\* the call raised ("" when it returned).
feed(p, data) ==
    feed_loop([buffer |-> p.buffer \o data,
               authenticated |-> p.authenticated,
               error |-> p.error, exc |-> ""], data)

\* (an opening call that does not wait for the OK line)
may_begin_at_once(p) == TRUE

\* while not auth_parser.authenticated: ... ; sendall(BEGIN)
may_begin(p) == p.authenticated

\* What a bus sends in answer to the AUTH line.
AuthStreams ==
    { << "OK", "g", "CR", "LF" >>,
      << "OK", "g", "CR", "LF", "s" >>,
      << "R", "CR", "LF" >>,
      << "R", "CR", "LF", "OK", "g", "CR", "LF" >>,
      << "CR", "LF", "OK", "g", "CR", "LF" >> }

\* The ways recv can hand out the bytes of b in at most n reads.
RECURSIVE Chunkings(_, _)
Chunkings(b, n) ==
    IF n <= 1 \/ Len(b) <= 1
    THEN { << b >> }
    ELSE { << b >> } \cup
         UNION { { << SubSeq(b, 1, i) >> \o r :
                     r \in Chunkings(SubSeq(b, i + 1, Len(b)), n - 1) } :
                 i \in 1..(Len(b) - 1) }

\* What the bus sends once it has the Hello call, as reads.
ReplyStreams ==
    { << << "H" >> >>, << << "s", "H" >> >>, << << "H", "s" >> >>,
      << << "s" >>, << "H" >> >> }

\* The name the bus gives in its Hello reply.
BusName == ":1.1"

InitOpen ==
    /\ adapter \in Adapters
    /\ RouterIdle /\ FdIdle /\ RaceIdle /\ LibIdle
    /\ sock_rx \in UNION { Chunkings(b, MaxChunks) : b \in AuthStreams }
    /\ sock_tx = << >>
    /\ auth_parser = NewSASLParser
    /\ conn_parser = NewParser
    /\ received = << >>
    /\ unique_name = ""
    /\ opc = "start"
    /\ oexc = NoExc

openFixed == << routerVars, fdVars, raceVars, libVars >>

\* sock.sendall(b'\0' + make_auth_external()); auth_parser = SASLParser()
OpenConnect ==
    /\ opc = "start"
    /\ sock_tx' = Append(sock_tx, "AUTH")
    /\ opc' = "auth"
    /\ UNCHANGED << openFixed, sock_rx, auth_parser, conn_parser, received,
                    unique_name, oexc >>

\* One turn of the authentication loop: recv, feed, the error test.
OpenAuthRecv ==
    /\ opc = "auth" /\ ~ auth_parser.authenticated /\ sock_rx # << >>
    /\ LET r == feed(auth_parser, Head(sock_rx))
       IN  /\ auth_parser' = [buffer |-> r.buffer,
                              authenticated |-> r.authenticated,
                              error |-> r.error]
           /\ IF r.exc # ""
              THEN opc' = "failed" /\ oexc' = [type |-> r.exc, arg |-> << >>]
              ELSE IF Truthy(r.error)
              THEN /\ opc' = "failed"
                   /\ oexc' = [type |-> "AuthenticationError", arg |-> r.error]
              ELSE opc' = opc /\ oexc' = oexc
    /\ sock_rx' = Tail(sock_rx)
    /\ received' = received \o Head(sock_rx)
    /\ UNCHANGED << openFixed, sock_tx, conn_parser, unique_name >>

\* The bus closes the socket during authentication: an empty read.
\* blocking, threading: unwrap_read raises ConnectionResetError; asyncio:
\* EOFError.
OpenAuthEof ==
    /\ opc = "auth" /\ ~ auth_parser.authenticated /\ sock_rx = << >>
    /\ adapter # "trio"
    /\ opc' = "failed"
    /\ oexc' = [type |-> IF adapter = "asyncio" THEN "EOFError"
                         ELSE "ConnectionResetError",
                arg |-> << >>]
    /\ UNCHANGED << openFixed, sock_rx, sock_tx, auth_parser, conn_parser,
                    received, unique_name >>

\* trio: b = await sock.receive_some() at the end of the stream is b'',
\* which nothing tests.
OpenAuthEofTrio ==
    /\ opc = "auth" /\ ~ auth_parser.authenticated /\ sock_rx = << >>
    /\ adapter = "trio"
    /\ opc' = "eof"
    /\ UNCHANGED << openFixed, sock_rx, sock_tx, auth_parser, conn_parser,
                    received, unique_name, oexc >>

\* trio: auth_parser.feed(b'') and the error test; the loop goes round.
OpenAuthFeedEof ==
    /\ opc = "eof"
    /\ LET r == feed(auth_parser, << >>)
       IN  /\ auth_parser' = [buffer |-> r.buffer,
                              authenticated |-> r.authenticated,
                              error |-> r.error]
           /\ IF r.exc # ""
              THEN opc' = "failed" /\ oexc' = [type |-> r.exc, arg |-> << >>]
              ELSE IF Truthy(r.error)
              THEN /\ opc' = "failed"
                   /\ oexc' = [type |-> "AuthenticationError", arg |-> r.error]
              ELSE opc' = "auth" /\ oexc' = oexc
    /\ UNCHANGED << openFixed, sock_rx, sock_tx, conn_parser, received,
                    unique_name >>

\* The loop is left: BEGIN is written and the connection object made.
\* asyncio: conn.parser.add_data(auth_parser.buffer); threading:
\* conn.parser.buf = auth_parser.buffer; trio: the buffer is not passed
\* on; blocking: DBusConnection.__init__ runs the Hello call first.
OpenBegin ==
    /\ opc = "auth" /\ may_begin(auth_parser)
    /\ sock_tx' = Append(sock_tx, "BEGIN")
    /\ conn_parser' =
          IF adapter = "asyncio"
          THEN [conn_parser EXCEPT !.buf = conn_parser.buf \o auth_parser.buffer]
          ELSE IF adapter = "threading"
          THEN [conn_parser EXCEPT !.buf = auth_parser.buffer]
          ELSE conn_parser
    /\ opc' = "hello"
    /\ UNCHANGED << openFixed, sock_rx, auth_parser, received, unique_name,
                    oexc >>

\* The Hello method call is sent; the bus will answer it.
OpenHello(reply) ==
    /\ opc = "hello"
    /\ sock_tx' = Append(sock_tx, "Hello")
    /\ sock_rx' = sock_rx \o reply
    /\ opc' = "reply"
    /\ UNCHANGED << openFixed, auth_parser, conn_parser, received,
                    unique_name, oexc >>

\* conn.receive: nothing left to parse, so read and parser.add_data(b).
OpenRecv ==
    /\ opc = "reply" /\ conn_parser.buf = << >> /\ sock_rx # << >>
    /\ conn_parser' = [conn_parser EXCEPT !.buf = Head(sock_rx)]
    /\ sock_rx' = Tail(sock_rx)
    /\ received' = received \o Head(sock_rx)
    /\ UNCHANGED << openFixed, sock_tx, auth_parser, unique_name, opc, oexc >>

\* parser.get_next_message(): the next message leaves the buffer; the
\* Hello reply ends the wait and gives unique_name.
OpenParse ==
    /\ opc = "reply" /\ conn_parser.buf # << >>
    /\ conn_parser' = [buf |-> Tail(conn_parser.buf),
                       parsed |-> Append(conn_parser.parsed,
                                         Head(conn_parser.buf))]
    /\ IF Head(conn_parser.buf) = "H"
       THEN unique_name' = BusName /\ opc' = "named"
       ELSE unique_name' = unique_name /\ opc' = opc
    /\ UNCHANGED << openFixed, sock_rx, sock_tx, auth_parser, received, oexc >>

\* return conn; blocking: conn.parser.buf = auth_parser.buffer comes
\* here, after DBusConnection.__init__ has had its Hello reply.
OpenReturn ==
    /\ opc = "named"
    /\ conn_parser' =
          IF adapter = "blocking"
          THEN [conn_parser EXCEPT !.buf = auth_parser.buffer]
          ELSE conn_parser
    /\ opc' = "returned"
    /\ UNCHANGED << openFixed, sock_rx, sock_tx, auth_parser, received,
                    unique_name, oexc >>

NextOpen ==
    \/ OpenConnect
    \/ OpenAuthRecv
    \/ OpenAuthEof
    \/ OpenAuthEofTrio
    \/ OpenAuthFeedEof
    \/ OpenBegin
    \/ \E reply \in ReplyStreams : OpenHello(reply)
    \/ OpenRecv
    \/ OpenParse
    \/ OpenReturn

SpecOpen == InitOpen /\ [][NextOpen]_vars

\* The opening call goes on as long as it has a step to take.
SpecOpenLive == SpecOpen /\ WF_vars(NextOpen)

\* ----------------------------------------------------------- WrappedFD
\* One WrappedFD around a descriptor received from the bus, and the calls
\* an application makes on it, in any order, until it is finalised.
MaxFd == 7
MaxCloses == 2

\* Descriptors from_ancdata can wrap: integers the kernel handed out.
FdNums == 0..MaxFd

InitFD ==
    /\ adapter = "blocking"
    /\ RouterIdle /\ OpenIdle /\ RaceIdle /\ LibIdle
    /\ fd \in FdNums
    /\ closes = 0
    /\ owner = "wrapper"
    /\ fd_call = NoCall
    /\ fd_warned = FALSE
    /\ finalised = FALSE
    /\ desc_open = TRUE

fdFixed == << routerVars, openVars, raceVars, libVars >>

\* A call that returned None or raised, and one that returned r.
Call(o, d, x) == [op |-> o, did |-> d, exc |-> x, ret |-> "None"]

Returned(o, d, r) == [op |-> o, did |-> d, exc |-> "", ret |-> r]

\* (a close that tests nothing)
close_branch_always(f) == "close"

\* WrappedFD.close: which branch of the if statement runs.
close_branch(f) ==
    IF f = CLOSED THEN "pass"
    ELSE IF f = CONVERTED THEN "raise"
    ELSE "close"

\* (a close that leaves the field as it is)
after_close_keep(f) == f

\* self._fd, fd = self._CLOSED, self._fd
after_close(f) == CLOSED

\* The body of WrappedFD.close, called as operation o.
Close(o) ==
    LET b == close_branch(fd)
    IN  /\ fd_call' = Call(o, b, IF b = "raise" THEN "RuntimeError" ELSE "")
        /\ IF b = "close"
           THEN /\ fd' = after_close(fd) /\ closes' = closes + 1
                /\ desc_open' = FALSE
           ELSE fd' = fd /\ closes' = closes /\ desc_open' = desc_open
        /\ owner' = owner

\* wrapper.close()
FdClose ==
    /\ ~ finalised /\ closes < MaxCloses
    /\ Close("close")
    /\ UNCHANGED << fdFixed, fd_warned, finalised >>

\* Leaving a with block: __exit__ calls self.close().
FdExit ==
    /\ ~ finalised /\ closes < MaxCloses
    /\ Close("__exit__")
    /\ UNCHANGED << fdFixed, fd_warned, finalised >>

\* __del__: a wrapper still holding a descriptor warns and closes it.
FdDel ==
    /\ ~ finalised /\ closes < MaxCloses
    /\ finalised' = TRUE
    /\ IF fd >= 0
       THEN fd_warned' = TRUE /\ Close("__del__")
       ELSE /\ fd_call' = Call("__del__", "pass", "")
            /\ UNCHANGED << fd, closes, owner, fd_warned, desc_open >>
    /\ UNCHANGED fdFixed

\* fileno(): returns the field, untouched.
FdFileno ==
    /\ ~ finalised
    /\ fd_call' = Returned("fileno", "pass", fd)
    /\ UNCHANGED << fdFixed, fd, closes, owner, fd_warned, finalised,
                    desc_open >>

\* to_raw_fd(): the field becomes _CONVERTED whatever it was; the caller
\* gets the old value and owns the descriptor if that was one.
FdToRawFd ==
    /\ ~ finalised
    /\ fd' = CONVERTED
    /\ owner' = IF fd >= 0 THEN "caller" ELSE owner
    /\ fd_call' = Returned("to_raw_fd",
                         IF fd >= 0 THEN "convert" ELSE "pass", fd)
    /\ UNCHANGED << fdFixed, closes, fd_warned, finalised, desc_open >>

\* to_file / to_socket: open(self._fd, ...) or socket(fileno=self._fd)
\* first; it raises on a negative number, and may fail on a descriptor
\* (ok = FALSE); only after it succeeded is the field set to _CONVERTED.
FdConvert(o, to, ok) ==
    /\ ~ finalised
    /\ IF fd < 0
       THEN /\ fd_call' = Call(o, "raise", "ValueError")
            /\ UNCHANGED << fd, owner >>
       ELSE IF ~ ok
       THEN /\ fd_call' = Call(o, "raise", "OSError")
            /\ UNCHANGED << fd, owner >>
       ELSE /\ fd_call' = Call(o, "convert", "")
            /\ fd' = CONVERTED
            /\ owner' = to
    /\ UNCHANGED << fdFixed, closes, fd_warned, finalised, desc_open >>

\* The receiver of a conversion closes what it was given (closing the
\* file or socket object closes the descriptor); the wrapper may be gone.
FdOwnerCloses ==
    /\ owner # "wrapper" /\ desc_open
    /\ desc_open' = FALSE
    /\ UNCHANGED << fdFixed, fd, closes, owner, fd_call, fd_warned,
                    finalised >>

FdToFile(ok) == FdConvert("to_file", "file", ok)

FdToSocket(ok) == FdConvert("to_socket", "socket", ok)

NextFD ==
    \/ FdClose
    \/ FdExit
    \/ FdDel
    \/ FdFileno
    \/ FdToRawFd
    \/ \E ok \in BOOLEAN : FdToFile(ok)
    \/ \E ok \in BOOLEAN : FdToSocket(ok)
    \/ FdOwnerCloses

SpecFD == InitFD /\ [][NextFD]_vars

\* ------------------------------- the threaded receiver, step by step
\* The threaded DBusRouter with _dispatch running in the receiver thread
\* one statement at a time, while application threads register waiters,
\* time out, add filters and close them.  Neither ReplyMatcher nor
\* MessageFilters takes a lock, so another thread can run between any
\* two statements.
InitRace ==
    /\ adapter = "threading"
    /\ outgoing_serial = 1
    /\ reply_futures = EmptyMap
    /\ fut = [c \in Callers |-> NewFuture]
    /\ filters = EmptyMap
    /\ filter_ids = 0
    /\ rcv = "running"
    /\ pc = [c \in Callers |-> "idle"]
    /\ kind = [c \in Callers |-> "sagr"]
    /\ mtype = [c \in Callers |-> "method_call"]
    /\ serial = [c \in Callers |-> 0]
    /\ outcome = [c \in Callers |-> Outcome("none")]
    /\ result = [c \in Callers |-> NoMsg]
    /\ wire = << >>
    /\ send_lock = 0
    /\ lock_q = << >>
    /\ nrecv = 0
    /\ OpenIdle /\ FdIdle /\ RaceIdle /\ LibIdle

raceFixed == << openVars, fdVars, libVars, adapter, outgoing_serial, filter_ids,
                callerVars, wire, send_lock, lock_q >>

\* The receiver thread ends with exception x (_receiver catches
\* ReceiveStopped only).
ThreadDies(x) == rcv' = "done" /\ rpc' = "dead" /\ rexc' = x

\* FilterHandle.close(): del self._filters.filters[self._filter_id]
ThFilterClose(f) ==
    /\ adapter = "threading" /\ f \in DOMAIN filters
    /\ filters' = Drop(filters, f)
    /\ UNCHANGED << auxVars, adapter, outgoing_serial, reply_futures, fut,
                    filter_ids, rcv, callerVars, wire, send_lock, lock_q,
                    nrecv >>

\* msg = self.conn.receive(); _dispatch(msg) is entered.
ThRaceReceive(m) ==
    /\ adapter = "threading" /\ rcv = "running" /\ rpc = "receive"
    /\ nrecv < MaxRecv
    /\ nrecv' = nrecv + 1
    /\ rmsg' = m
    /\ rpc' = "check"
    /\ UNCHANGED << raceFixed, reply_futures, fut, filters, rcv, riter, rexc >>

\* ReplyMatcher.dispatch: if rep_serial in self._futures
ThRaceCheck ==
    /\ rcv = "running" /\ rpc = "check"
    /\ rpc' = IF th_waiter(rmsg) THEN "index" ELSE "filters"
    /\ UNCHANGED << raceFixed, reply_futures, fut, filters, rcv, nrecv, rmsg,
                    riter, rexc >>

\* self._futures[rep_serial].set_result(msg): the subscript raises
\* KeyError when the entry has gone since the test, set_result raises
\* InvalidStateError on a finished future.
ThRaceIndex ==
    /\ rcv = "running" /\ rpc = "index"
    /\ IF rmsg.reply_serial \notin DOMAIN reply_futures
       THEN ThreadDies("KeyError") /\ fut' = fut
       ELSE IF fut[reply_futures[rmsg.reply_serial]].st # "pending"
       THEN ThreadDies("InvalidStateError") /\ fut' = fut
       ELSE /\ fut' = [fut EXCEPT ![reply_futures[rmsg.reply_serial]] =
                          [@ EXCEPT !.st = "result", !.val = rmsg]]
            /\ rpc' = "receive"
            /\ UNCHANGED << rcv, rexc >>
    /\ UNCHANGED << raceFixed, reply_futures, filters, nrecv, rmsg, riter >>

\* The filter with the lowest id above last, 0 - 1 when there is none
\* (dict order is insertion order, which is id order).
NextFilter(fs, last) ==
    IF \E f \in DOMAIN fs : f > last
    THEN CHOOSE f \in DOMAIN fs :
            f > last /\ \A g \in DOMAIN fs : g > last => f <= g
    ELSE 0 - 1

\* filter.queue.put_nowait(msg) for filter f when its rule matches.
put_one(fs, f, m) ==
    IF matches(fs[f].rule, m) /\ Len(fs[f].q) < fs[f].cap
    THEN [fs EXCEPT ![f].q = Append(@, m)]
    ELSE fs

\* for filter in self._filters.matches(msg): the iterator over
\* self.filters.values() is made and gives its first value, whose loop
\* body runs.
ThRaceIterFirst ==
    /\ rcv = "running" /\ rpc = "filters"
    /\ LET f == NextFilter(filters, 0 - 1)
       IN  IF f = 0 - 1
           THEN rpc' = "receive" /\ UNCHANGED << filters, riter >>
           ELSE /\ riter' = [used |-> Cardinality(DOMAIN filters), last |-> f]
                /\ filters' = put_one(filters, f, rmsg)
                /\ rpc' = "next"
    /\ UNCHANGED << raceFixed, reply_futures, fut, rcv, nrecv, rmsg, rexc >>

\* The iterator is asked for the next value: a dict whose size differs
\* from the size at the iterator's creation raises RuntimeError
\* (dictionary changed size during iteration).
ThRaceIterNext ==
    /\ rcv = "running" /\ rpc = "next"
    /\ IF Cardinality(DOMAIN filters) # riter.used
       THEN ThreadDies("RuntimeError") /\ UNCHANGED << filters, riter >>
       ELSE LET f == NextFilter(filters, riter.last)
            IN  /\ UNCHANGED << rcv, rexc >>
                /\ IF f = 0 - 1
                   THEN rpc' = "receive" /\ UNCHANGED << filters, riter >>
                   ELSE /\ riter' = [riter EXCEPT !.last = f]
                        /\ filters' = put_one(filters, f, rmsg)
                        /\ rpc' = "next"
    /\ UNCHANGED << raceFixed, reply_futures, fut, nrecv, rmsg >>

NextRace ==
    \/ \E c \in Callers : ThSendAndGetReply(c, "method_call")
    \/ \E c \in Callers : ThSendall(c, TRUE)
    \/ \E c \in Callers : ThReplied(c)
    \/ \E c \in Callers : ThTimeout(c)
    \/ \E c \in Callers : ThTimedOut(c)
    \/ \E r \in Rules, n \in 1..MaxCap : ThFilter(r, n)
    \/ \E f \in DOMAIN filters : ThFilterClose(f)
    \/ \E m \in Msgs : ThRaceReceive(m)
    \/ ThRaceCheck
    \/ ThRaceIndex
    \/ ThRaceIterFirst
    \/ ThRaceIterNext

SpecRace == InitRace /\ [][NextRace]_vars

\* ------------------------------------------------ filters and queues
\* Registering and removing filters, with the queue the caller may pass:
\* asyncio DBusRouter.add_filter / remove_filter, the same two methods of
\* the DBusConnection of jeepney/integrate/blocking.py, and the filter()
\* method of the threading router and of the io.blocking connection, which
\* returns a FilterHandle.
MaxHandles == 2      \* filters registered in one behaviour

FilterAdapters == {"asyncio", "threading", "blocking", "integrate.blocking"}

InitFilters ==
    /\ adapter \in FilterAdapters
    /\ outgoing_serial = 1
    /\ reply_futures = EmptyMap
    /\ fut = [c \in Callers |-> NewFuture]
    /\ filters = EmptyMap
    /\ filter_ids = 0
    /\ rcv = IF adapter \in {"asyncio", "threading"} THEN "running" ELSE "done"
    /\ pc = [c \in Callers |-> "idle"]
    /\ kind = [c \in Callers |-> "send"]
    /\ mtype = [c \in Callers |-> "method_call"]
    /\ serial = [c \in Callers |-> 0]
    /\ outcome = [c \in Callers |-> Outcome("none")]
    /\ result = [c \in Callers |-> NoMsg]
    /\ wire = << >>
    /\ send_lock = 0
    /\ lock_q = << >>
    /\ nrecv = 0
    /\ OpenIdle /\ FdIdle /\ RaceIdle
    /\ FilterIdle /\ StopIdle /\ WrapIdle /\ RuleIdle /\ ThrIdle /\ HdrIdle

filterFixed == << openVars, fdVars, raceVars, stopVars, wrapVars, ruleVars,
                  thrVars, hdrVars,
                  adapter, outgoing_serial, reply_futures, fut, rcv,
                  callerVars, wire, send_lock, lock_q, nrecv >>

\* The queues a caller passes: empty, or holding a message already.
CallerQueues == {<< >>, << [type |-> "signal", reply_serial |-> NoSerial] >>}

FilterCall(o, f, x) == [op |-> o, id |-> f, exc |-> x]

\* add_filter(rule, channel): fid = next(self._filter_ids);
\* self._filters[fid] = (rule, channel); return fid.  The channel is the
\* caller's object, with the capacity the caller gave it.
add_filter(rule, cap) ==
    /\ adapter \in {"asyncio", "integrate.blocking"}
    /\ filter_ids < MaxHandles
    /\ filters' = Put(filters, filter_ids,
                      [rule |-> rule, cap |-> cap, q |-> << >>])
    /\ chan' = Put(chan, filter_ids, [given |-> TRUE, same |-> TRUE])
    /\ fcall' = FilterCall("add_filter", filter_ids, "")
    /\ filter_ids' = filter_ids + 1
    /\ UNCHANGED filterFixed

\* remove_filter(filter_id).  asyncio: self._filter_ids.pop(filter_id)[1]
\* -- _filter_ids is the itertools.count() of __init__, which has no pop:
\* AttributeError, and the table is not touched.  integrate.blocking:
\* self._filters.pop(filter_id)[1], KeyError for an id not in the table.
remove_filter(f) ==
    /\ adapter \in {"asyncio", "integrate.blocking"}
    /\ IF adapter = "asyncio"
       THEN /\ fcall' = FilterCall("remove_filter", f, "AttributeError")
            /\ UNCHANGED << filters, chan >>
       ELSE IF f \notin DOMAIN filters
       THEN /\ fcall' = FilterCall("remove_filter", f, "KeyError")
            /\ UNCHANGED << filters, chan >>
       ELSE /\ fcall' = FilterCall("remove_filter", f, "")
            /\ filters' = Drop(filters, f)
            /\ chan' = Drop(chan, f)
    /\ UNCHANGED << filterFixed, filter_ids >>

\* bool(queue) in `queue or ...`: None is false; a deque is true when it
\* holds something (len); queue.Queue defines neither __bool__ nor __len__
\* and is always true.
queue_truth(given, cq) ==
    /\ given
    /\ adapter = "blocking" => cq # << >>

\* filter(rule, queue=queue, bufsize=bufsize):
\* FilterHandle(self._filters, rule, queue or Queue(maxsize=bufsize)),
\* deque(maxlen=bufsize) for io.blocking.  cq and cap are the contents and
\* the capacity of the queue the caller passes (given), if any.
filter(rule, given, cq, cap, bufsize) ==
    /\ adapter \in {"threading", "blocking"}
    /\ filter_ids < MaxHandles
    /\ filters' = Put(filters, filter_ids,
                      IF queue_truth(given, cq)
                      THEN [rule |-> rule, cap |-> cap, q |-> cq]
                      ELSE [rule |-> rule, cap |-> bufsize, q |-> << >>])
    /\ chan' = Put(chan, filter_ids,
                   [given |-> given, same |-> queue_truth(given, cq)])
    /\ fcall' = FilterCall("filter", filter_ids, "")
    /\ filter_ids' = filter_ids + 1
    /\ UNCHANGED filterFixed

\* FilterHandle.close() (and __exit__):
\* del self._filters.filters[self._filter_id]; KeyError the second time.
FilterHandleClose(f) ==
    /\ adapter \in {"threading", "blocking"}
    /\ f < filter_ids
    /\ IF f \in DOMAIN filters
       THEN /\ fcall' = FilterCall("close", f, "")
            /\ filters' = Drop(filters, f)
            /\ chan' = Drop(chan, f)
       ELSE /\ fcall' = FilterCall("close", f, "KeyError")
            /\ UNCHANGED << filters, chan >>
    /\ UNCHANGED << filterFixed, filter_ids >>

\* integrate.blocking DBusConnection.recv_messages: msg = self.receive();
\* chan.append(msg) for every (rule, chan) whose rule matches.
IntRecvMessages(m) ==
    /\ adapter = "integrate.blocking" /\ nrecv < MaxRecv
    /\ nrecv' = nrecv + 1
    /\ filters' = deque_append(filters, m)
    /\ UNCHANGED << auxVars, adapter, filter_ids, rcv, callerVars,
                    outgoing_serial, wire, send_lock, lock_q,
                    reply_futures, fut >>

NextFilters ==
    \/ \E r \in Rules, n \in 1..MaxCap : add_filter(r, n)
    \/ \E f \in 0..(MaxHandles - 1) : remove_filter(f)
    \/ \E r \in Rules, g \in BOOLEAN, cq \in CallerQueues, n \in 1..MaxCap :
           filter(r, g, IF g THEN cq ELSE << >>, n, n)
    \/ \E f \in 0..(MaxHandles - 1) : FilterHandleClose(f)
    \/ \E m \in Msgs : AioDispatch(m)
    \/ \E m \in Msgs : ThDispatch(m)
    \/ \E m \in Msgs : BlkRecvMessages(m)
    \/ \E m \in Msgs : IntRecvMessages(m)
    \/ \E f \in DOMAIN filters : QueueGet(f)

SpecFilters == InitFilters /\ [][NextFilters]_vars

\* ------------------------------------------- stopping a threaded router
\* open_dbus_router of jeepney/io/threading.py:
\*     with open_dbus_connection(bus=bus) as conn:
\*         with DBusRouter(conn) as router:
\*             yield router
\* Leaving the block runs router.stop() and then conn.close(), in the
\* thread that used the router, while the receiver thread runs _receiver.
InitStop ==
    /\ adapter = "threading"
    /\ outgoing_serial = 1
    /\ reply_futures = EmptyMap
    /\ fut = [c \in Callers |-> NewFuture]
    /\ filters = EmptyMap
    /\ filter_ids = 0
    /\ rcv = "running"
    /\ pc = [c \in Callers |-> "idle"]
    /\ kind = [c \in Callers |-> "sagr"]
    /\ mtype = [c \in Callers |-> "method_call"]
    /\ serial = [c \in Callers |-> 0]
    /\ outcome = [c \in Callers |-> Outcome("none")]
    /\ result = [c \in Callers |-> NoMsg]
    /\ wire = << >>
    /\ send_lock = 0
    /\ lock_q = << >>
    /\ nrecv = 0
    /\ OpenIdle /\ FdIdle /\ RaceIdle
    /\ FilterIdle /\ WrapIdle /\ RuleIdle /\ ThrIdle /\ HdrIdle
    /\ stop_pipe = 0 /\ spc = "in" /\ conn_open = TRUE

stopFixed == << routerVars, openVars, fdVars, raceVars, filterVars,
                wrapVars, ruleVars, thrVars,
                hdrVars >>

\* stop(): self.conn.interrupt() -- os.write(self._stop_w, b'a').
StopInterrupt ==
    /\ spc = "in"
    /\ stop_pipe' = stop_pipe + 1
    /\ spc' = "join"
    /\ UNCHANGED << stopFixed, conn_open >>

\* stop(): self._rcv_thread.join(timeout=10) returns None, when the thread
\* has ended or when the ten seconds are over, whichever comes first.
StopJoin ==
    /\ spc = "join" /\ rcv = "done"
    /\ spc' = "reset"
    /\ UNCHANGED << stopFixed, stop_pipe, conn_open >>

StopJoinTimeout ==
    /\ spc = "join" /\ rcv = "running"
    /\ spc' = "reset"
    /\ UNCHANGED << stopFixed, stop_pipe, conn_open >>

\* stop(): self.conn.reset_interrupt() reads the stop pipe empty; stop()
\* returns.
StopResetInterrupt ==
    /\ spc = "reset"
    /\ stop_pipe' = 0
    /\ spc' = "stopped"
    /\ UNCHANGED << stopFixed, conn_open >>

\* DBusConnection.close(): self.interrupt(); self.selector.close();
\* self.sock.close().
ConnClose ==
    /\ spc = "stopped"
    /\ stop_pipe' = stop_pipe + 1
    /\ conn_open' = FALSE
    /\ spc' = "closed"
    /\ UNCHANGED stopFixed

\* _read_some_data: selector.select() lists the stop pipe first:
\* ReceiveStopped, which _receiver catches, and the thread ends.
ReceiveStopped ==
    /\ rcv = "running" /\ stop_pipe > 0 /\ conn_open
    /\ rcv' = "done"
    /\ UNCHANGED << auxVars, adapter, outgoing_serial, reply_futures, fut,
                    filters, filter_ids, callerVars, wire, send_lock,
                    lock_q, nrecv >>

\* The thread calls select() on the closed selector: the exception is not
\* ReceiveStopped and ends the thread.
ReceiveOnClosed ==
    /\ rcv = "running" /\ ~ conn_open
    /\ rcv' = "done"
    /\ rexc' = "ValueError"
    /\ UNCHANGED << openVars, fdVars, libVars, rpc, rmsg, riter, adapter,
                    outgoing_serial, reply_futures, fut, filters,
                    filter_ids, callerVars, wire, send_lock, lock_q, nrecv >>

\* While the thread runs, a message the parser holds, or one the socket
\* delivers when select() lists the socket ahead of the stop pipe, is
\* received and dispatched (ThDispatch); the interrupt is looked at in
\* _read_some_data only.
NextStop ==
    \/ \E c \in Callers : ThSendAndGetReply(c, "method_call")
    \/ \E c \in Callers : ThSendall(c, TRUE)
    \/ \E c \in Callers : ThReplied(c)
    \/ \E r \in Rules, n \in 1..MaxCap : ThFilter(r, n)
    \/ \E m \in Msgs : rcv = "running" /\ ThDispatch(m)
    \/ ThReceiveFails
    \/ ReceiveStopped
    \/ ReceiveOnClosed
    \/ StopInterrupt
    \/ StopJoin
    \/ StopJoinTimeout
    \/ StopResetInterrupt
    \/ ConnClose

SpecStop == InitStop /\ [][NextStop]_vars

\* ------------------------------------------------ wrappers and proxies
\* jeepney/wrappers.py: the four message constructors, DBusErrorResponse,
\* and what a Proxy of each adapter makes of the reply to its call.
Paths == {"/a", "/b"}
BusNames == {"None", "org.x"}
Interfaces == {"None", "org.i"}
Members == {"Ping", "Snart"}
Signatures == {"None", "s"}
ErrorNames == {"org.err.A", "org.err.B"}
ParentSerials == 1..2

DBusAddress == [object_path : Paths, bus_name : BusNames,
                interface : Interfaces]

\* The body that goes with a signature: () or one string.
BodyOf(signature) == IF signature = "None" THEN << >> ELSE << "x" >>

\* (a test that finds nothing missing)
is_none_never(v) == FALSE

\* x is None
is_none(v) == v = "None"

Returns(m) == [exc |-> "", name |-> "None", data |-> << >>,
               ret |-> "Message", msg |-> m, body |-> << >>]
ReturnsBody(b) == [exc |-> "", name |-> "None", data |-> << >>,
                   ret |-> "tuple", msg |-> NoWMsg, body |-> b]
Raises(x, n, d) == [exc |-> x, name |-> n, data |-> d,
                    ret |-> "None", msg |-> NoWMsg, body |-> << >>]

\* new_method_call(remote_obj, method, signature, body)
new_method_call(remote_obj, method, signature, body) ==
    IF is_none(remote_obj.bus_name)
    THEN Raises("ValueError", "None", << >>)
    ELSE Returns([new_header("method_call") EXCEPT
                     !.path = remote_obj.object_path,
                     !.destination = remote_obj.bus_name,
                     !.interface = remote_obj.interface,
                     !.member = method,
                     !.signature = signature,
                     !.body = body])

\* new_method_return(parent_msg, signature, body); parent the serial in
\* parent_msg.header.
new_method_return(parent, signature, body) ==
    Returns([new_header("method_return") EXCEPT
                !.reply_serial = parent,
                !.signature = signature,
                !.body = body])

\* new_error(parent_msg, error_name, signature, body)
new_error(parent, error_name, signature, body) ==
    Returns([new_header("error") EXCEPT
                !.reply_serial = parent,
                !.error_name = error_name,
                !.signature = signature,
                !.body = body])

\* new_signal(emitter, signal, signature, body)
new_signal(emitter, signal, signature, body) ==
    IF is_none(emitter.interface)
    THEN Raises("ValueError", "None", << >>)
    ELSE Returns([new_header("signal") EXCEPT
                     !.path = emitter.object_path,
                     !.interface = emitter.interface,
                     !.member = signal,
                     !.signature = signature,
                     !.body = body])

\* DBusErrorResponse(msg): name = msg.header.fields.get(error_name),
\* data = msg.body.
DBusErrorResponse(msg) ==
    Raises("DBusErrorResponse", msg.error_name, msg.body)

\* unwrap_msg(msg): an error message is raised as DBusErrorResponse, the
\* body of any other message is returned.
unwrap_msg(msg) ==
    IF msg.type = "error" THEN DBusErrorResponse(msg)
    ELSE ReturnsBody(msg.body)

\* Proxy._method_call's inner(): the reply of send_and_get_reply goes
\* through unwrap_msg in the asyncio, threading and io.blocking proxies;
\* the trio proxy returns what send_and_get_reply returned.
proxy_call(a, reply) ==
    IF a = "trio" THEN Returns(reply) ELSE unwrap_msg(reply)

\* The replies a bus sends to a call: made by the peer with
\* new_method_return or new_error.
Replies ==
    {new_method_return(p, g, BodyOf(g)).msg :
        p \in ParentSerials, g \in Signatures}
    \cup {new_error(p, n, g, BodyOf(g)).msg :
        p \in ParentSerials, n \in ErrorNames, g \in Signatures}

InitWrap ==
    /\ adapter = "blocking"
    /\ RouterIdle
    /\ OpenIdle /\ FdIdle /\ RaceIdle
    /\ FilterIdle /\ StopIdle /\ WrapIdle /\ RuleIdle /\ ThrIdle /\ HdrIdle

wrapFixed == << routerVars, openVars, fdVars, raceVars, filterVars,
                stopVars, ruleVars, thrVars,
                hdrVars >>

Called(o, args, r) ==
    [op |-> o, arg |-> args, exc |-> r.exc, name |-> r.name,
     data |-> r.data, ret |-> r.ret, msg |-> r.msg, body |-> r.body]

WrapMethodCall(o, m, g) ==
    /\ wcall' = Called("new_method_call",
                       [NoArg EXCEPT !.obj = o, !.member = m, !.signature = g],
                       new_method_call(o, m, g, BodyOf(g)))
    /\ UNCHANGED wrapFixed

WrapMethodReturn(p, g) ==
    /\ wcall' = Called("new_method_return",
                       [NoArg EXCEPT !.parent = p, !.signature = g],
                       new_method_return(p, g, BodyOf(g)))
    /\ UNCHANGED wrapFixed

WrapError(p, n, g) ==
    /\ wcall' = Called("new_error",
                       [NoArg EXCEPT !.parent = p, !.error_name = n,
                                     !.signature = g],
                       new_error(p, n, g, BodyOf(g)))
    /\ UNCHANGED wrapFixed

WrapSignal(o, m, g) ==
    /\ wcall' = Called("new_signal",
                       [NoArg EXCEPT !.obj = o, !.member = m, !.signature = g],
                       new_signal(o, m, g, BodyOf(g)))
    /\ UNCHANGED wrapFixed

\* A method of a Proxy of adapter a is called and the bus answers reply.
ProxyMethodCall(a, reply) ==
    /\ wcall' = Called("proxy", [NoArg EXCEPT !.reply = reply, !.via = a],
                       proxy_call(a, reply))
    /\ UNCHANGED wrapFixed

\* send_and_get_reply of the router of adapter a is called and the bus
\* answers reply: the Message is returned as it came.
RouterSendAndGetReply(a, reply) ==
    /\ wcall' = Called("send_and_get_reply",
                       [NoArg EXCEPT !.reply = reply, !.via = a],
                       Returns(reply))
    /\ UNCHANGED wrapFixed

NextWrap ==
    \/ \E o \in DBusAddress, m \in Members, g \in Signatures :
           WrapMethodCall(o, m, g)
    \/ \E p \in ParentSerials, g \in Signatures : WrapMethodReturn(p, g)
    \/ \E p \in ParentSerials, n \in ErrorNames, g \in Signatures :
           WrapError(p, n, g)
    \/ \E o \in DBusAddress, m \in Members, g \in Signatures :
           WrapSignal(o, m, g)
    \/ \E a \in Adapters, r \in Replies : ProxyMethodCall(a, r)
    \/ \E a \in Adapters, r \in Replies : RouterSendAndGetReply(a, r)

SpecWrap == InitWrap /\ [][NextWrap]_vars

\* ---------------------------------------------------------- MatchRule
\* jeepney/bus_messages.py: a MatchRule is built from keyword arguments,
\* gets argument conditions, and is serialised for AddMatch.  A string is
\* the sequence of its characters; the empty one stands for None as well
\* (the constructor tests `if path:`).  conditions is the dict as the list
\* of its items in insertion order.
MaxConds == 3        \* conditions in one rule

Values == {<< "a" >>, << "b", "'" >>}
Unset == << >>
ArgNos == {0 - 1, 0, 1, 63, 64}
Kinds == {"string", "path", "namespace", "regex"}

\* The keys in the order sorted() gives them (str comparison).
SortedKeys ==
    << "arg-1", "arg-1path", "arg0", "arg0namespace", "arg0path", "arg1",
       "arg1path", "arg63", "arg63path", "arg64", "arg64path",
       "destination", "eavesdrop", "interface", "member", "path",
       "path_namespace", "sender", "type" >>

Rank(k) == CHOOSE i \in 1..Len(SortedKeys) : SortedKeys[i] = k

Keys(c) == {c[i].k : i \in 1..Len(c)}

\* c[key] = value: a new key goes to the end, a key the dict has keeps
\* its place.
SetItem(c, key, value) ==
    IF key \in Keys(c)
    THEN [i \in 1..Len(c) |-> IF c[i].k = key THEN [k |-> key, v |-> value]
                               ELSE c[i]]
    ELSE Append(c, [k |-> key, v |-> value])

\* if value: c[key] = value
SetIf(c, key, value) == IF value # Unset THEN SetItem(c, key, value) ELSE c

\* The keyword arguments of MatchRule(): each Unset or "a", eavesdrop a
\* boolean.
Keywords ==
    [type : {Unset, << "a" >>}, sender : {Unset, << "a" >>},
     interface : {Unset, << "a" >>}, member : {Unset, << "a" >>},
     path : {Unset, << "a" >>}, path_namespace : {Unset, << "a" >>},
     destination : {Unset, << "a" >>}, eavesdrop : BOOLEAN]

\* MatchRule.__init__: the keywords kw in the order of the code.
MatchRule_init(kw) ==
    LET c1 == SetIf(<< >>, "type", kw.type)
        c2 == SetIf(c1, "sender", kw.sender)
        c3 == SetIf(c2, "interface", kw.interface)
        c4 == SetIf(c3, "member", kw.member)
        c5 == SetIf(c4, "path", kw.path)
        c6 == SetIf(c5, "path_namespace", kw.path_namespace)
        c7 == SetIf(c6, "destination", kw.destination)
    IN  IF kw.eavesdrop
        THEN SetItem(c7, "eavesdrop", << "t", "r", "u", "e" >>)
        ELSE c7

\* add_arg_condition's two tests: the exception raised, "" for none.
arg_condition_error(argno, knd) ==
    IF knd \notin {"string", "path", "namespace"} THEN "ValueError"
    ELSE IF knd = "namespace" /\ argno # 0 THEN "ValueError"
    ELSE ""

\* 'arg{}{}'.format(argno, kind), kind '' for 'string'.
arg_name(argno, knd) ==
    "arg" \o ToString(argno) \o (IF knd = "string" THEN "" ELSE knd)

\* (the items as the dict holds them)
items_unsorted(c) == c

\* sorted(self.conditions.items()): insertion sort on the keys.
RECURSIVE sorted_items(_)
sorted_items(c) ==
    IF c = << >> THEN << >>
    ELSE LET rest == sorted_items(Tail(c))
             n == Cardinality({i \in 1..Len(rest) :
                                  Rank(rest[i].k) < Rank(Head(c).k)})
         IN  SubSeq(rest, 1, n) \o << Head(c) >>
             \o SubSeq(rest, n + 1, Len(rest))

\* v.replace("'", r"\'")
RECURSIVE escape(_)
escape(v) ==
    IF v = << >> THEN << >>
    ELSE (IF Head(v) = "'" THEN << "\\", "'" >> ELSE << Head(v) >>)
         \o escape(Tail(v))

\* ','.join(parts) with parts '{}={}'.format(k, escaped v): the key, "=",
\* the characters of the value; "," between two parts.
RECURSIVE join_parts(_)
join_parts(c) ==
    IF c = << >> THEN << >>
    ELSE << Head(c).k, "=" >> \o escape(Head(c).v)
         \o (IF Tail(c) = << >> THEN << >> ELSE << "," >>)
         \o join_parts(Tail(c))

\* MatchRule.serialise
serialise(c) == join_parts(sorted_items(c))

InitRule ==
    /\ adapter = "blocking"
    /\ RouterIdle
    /\ OpenIdle /\ FdIdle /\ RaceIdle
    /\ FilterIdle /\ StopIdle /\ WrapIdle /\ RuleIdle /\ ThrIdle /\ HdrIdle

ruleFixed == << routerVars, openVars, fdVars, raceVars, filterVars,
                stopVars, wrapVars, thrVars,
                hdrVars >>

RuleCall(o, a, x, r) == [op |-> o, arg |-> a, exc |-> x, ret |-> r]

\* mr = MatchRule(type=..., sender=..., ...)
MatchRuleNew(kw) ==
    /\ mr_call.op = ""
    /\ LET c == MatchRule_init(kw)
       IN  /\ Len(c) < MaxConds
           /\ conditions' = c
    /\ mr_call' = RuleCall("MatchRule",
                           [NoRuleArg EXCEPT !.path = kw.path,
                                             !.path_namespace = kw.path_namespace],
                           "", << >>)
    /\ UNCHANGED ruleFixed

\* mr.add_arg_condition(argno, value, kind)
AddArgCondition(argno, value, knd) ==
    /\ mr_call.op # ""
    /\ Len(conditions) < MaxConds
    /\ mr_call' = RuleCall("add_arg_condition",
                           [NoRuleArg EXCEPT !.argno = argno, !.kind = knd],
                           arg_condition_error(argno, knd), << >>)
    /\ conditions' = IF arg_condition_error(argno, knd) = ""
                     THEN SetItem(conditions, arg_name(argno, knd), value)
                     ELSE conditions
    /\ UNCHANGED ruleFixed

\* mr.serialise()
Serialise ==
    /\ mr_call.op # ""
    /\ mr_call' = RuleCall("serialise", NoRuleArg, "", serialise(conditions))
    /\ UNCHANGED << ruleFixed, conditions >>

NextRule ==
    \/ \E kw \in Keywords : MatchRuleNew(kw)
    \/ \E argno \in ArgNos, value \in Values, knd \in Kinds :
           AddArgCondition(argno, value, knd)
    \/ Serialise

SpecRule == InitRule /\ [][NextRule]_vars

\* --------------------------------------------------- receiving messages
\* DBusConnection.receive of the four adapters: the loop over
\* parser.get_next_message() and a read of the socket.  A message on the
\* wire is MsgParts bytes, [m, part] for part 1..MsgParts of message m; a
\* read hands out any number of them, and the empty bytes once the bus has
\* closed the socket.
WireMsgs == {"a", "b"}

Encode(m) == [i \in 1..MsgParts |-> [m |-> m, part |-> i]]

\* What a bus sends before it closes the socket: up to two messages and
\* possibly the beginning of another.
RecvStreams ==
    LET whole == {<< >>} \cup {Encode(m) : m \in WireMsgs}
                 \cup {Encode(m) \o Encode(n) : m, n \in WireMsgs}
        begun == {<< >>} \cup {SubSeq(Encode(m), 1, k) :
                                 m \in WireMsgs, k \in 1..(MsgParts - 1)}
    IN  {w \o b : w \in whole, b \in begun}

\* The reads of a stream, the last one the empty read of the closed socket.
RecvReads(b) ==
    IF b = << >> THEN {<< << >> >>}
    ELSE {c \o << << >> >> : c \in Chunkings(b, MaxChunks)}

\* Parser.add_data(b)
add_data(p, b) == [p EXCEPT !.buf = p.buf \o b]

\* Parser.get_next_message() is not None: the buffer holds every byte of
\* its first message.
has_message(p) == Len(p.buf) >= MsgParts

\* Parser.get_next_message(): the first message leaves the buffer.
get_next_message(p) ==
    [buf |-> SubSeq(p.buf, MsgParts + 1, Len(p.buf)),
     parsed |-> Append(p.parsed, p.buf[1].m)]

\* (a read that is never taken for the end of the stream)
end_of_stream_never(b) == FALSE

\* if not b
end_of_stream(b) == b = << >>

\* The exception an empty read raises: EOFError (asyncio), EndOfChannel
\* (trio), ConnectionResetError from unwrap_read (blocking, threading).
EndOfStreamError(a) ==
    IF a = "asyncio" THEN "EOFError"
    ELSE IF a = "trio" THEN "EndOfChannel"
    ELSE "ConnectionResetError"

InitRecv ==
    /\ adapter \in Adapters
    /\ RouterIdle /\ FdIdle /\ RaceIdle /\ LibIdle
    /\ sock_rx \in UNION {RecvReads(b) : b \in RecvStreams}
    /\ sock_tx = << >>
    /\ auth_parser = NewSASLParser
    /\ conn_parser = NewParser
    /\ received = << >>
    /\ unique_name = ""
    /\ opc = "idle"
    /\ oexc = NoExc

\* The application calls conn.receive().
RecvCall ==
    /\ opc = "idle"
    /\ opc' = "receiving"
    /\ UNCHANGED << openFixed, sock_rx, sock_tx, auth_parser, conn_parser,
                    received, unique_name, oexc >>

\* msg = self.parser.get_next_message(); if msg is not None: return msg
RecvReturn ==
    /\ opc = "receiving" /\ has_message(conn_parser)
    /\ conn_parser' = get_next_message(conn_parser)
    /\ opc' = "idle"
    /\ UNCHANGED << openFixed, sock_rx, sock_tx, auth_parser, received,
                    unique_name, oexc >>

\* b = read(4096): an empty b raises, any other goes to parser.add_data.
RecvRead ==
    /\ opc = "receiving" /\ ~ has_message(conn_parser)
    /\ sock_rx # << >>
    /\ sock_rx' = Tail(sock_rx)
    /\ received' = received \o Head(sock_rx)
    /\ IF end_of_stream(Head(sock_rx))
       THEN /\ opc' = "failed"
            /\ oexc' = [type |-> EndOfStreamError(adapter), arg |-> << >>]
            /\ UNCHANGED conn_parser
       ELSE /\ conn_parser' = add_data(conn_parser, Head(sock_rx))
            /\ UNCHANGED << opc, oexc >>
    /\ UNCHANGED << openFixed, sock_tx, auth_parser, unique_name >>

NextRecv ==
    \/ RecvCall
    \/ RecvReturn
    \/ RecvRead

SpecRecv == InitRecv /\ [][NextRecv]_vars

\* ------------------------------------------------------------------
\* io/threading.py: the receiver threads of the two routers that
\* open_dbus_router starts, one after the other, on one connection.
\* Router 1 is the one open_dbus_connection uses for Hello; router 2 is
\* the one handed to the application.  spc is the main thread's position:
\* [router, at], at being "in", "join", "reset", "stopped" or "closed".
\* rth[t] is "none", "lock" (about to enter `with self.rcv_lock`), "in"
\* (inside it), "dispatch" (in _dispatch), "stopped" (ended by
\* ReceiveStopped) or "failed" (ended by another exception).

Routers == 1..2

ThreadEnded == {"stopped", "failed"}

\* (a reset that leaves the stop pipe as it is)
reset_pipe_kept(n) == n

\* reset_interrupt: os.read while select lists the stop pipe.
reset_pipe(n) == 0

\* (a receive lock that lets every thread in)
rcv_lock_ignored(l) == TRUE

\* Lock.acquire: the lock is taken only when no thread holds it.
rcv_lock_free(l) == l = 0

InitThreads ==
    /\ adapter = "threading"
    /\ RouterIdle /\ OpenIdle /\ FdIdle /\ RaceIdle
    /\ FilterIdle /\ WrapIdle /\ RuleIdle /\ HdrIdle
    /\ stop_pipe = 0 /\ conn_open = TRUE
    /\ spc = [router |-> 1, at |-> "in"]
    /\ rth = << "lock", "none" >>
    /\ rcv_lock = 0

thrFixed == << routerVars, openVars, fdVars, raceVars, filterVars,
               wrapVars, ruleVars, hdrVars >>

thrRouter == << adapter, outgoing_serial, reply_futures, fut, filters,
                filter_ids, rcv, callerVars, wire, send_lock, lock_q >>

thrOther == << openVars, fdVars, raceVars, filterVars, wrapVars, ruleVars,
              hdrVars >>

\* receive(): with self.rcv_lock -- the thread enters the section.
ThrAcquire(t) ==
    /\ rth[t] = "lock" /\ rcv_lock_free(rcv_lock)
    /\ rcv_lock' = t
    /\ rth' = [rth EXCEPT ![t] = "in"]
    /\ UNCHANGED << thrFixed, stopVars >>

\* receive(): the parser holds a message, or the socket is listed by
\* select() and the bytes read complete one: return msg leaves the section.
ThrReceive(t) ==
    /\ rth[t] = "in" /\ conn_open /\ nrecv < MaxRecv
    /\ nrecv' = nrecv + 1
    /\ rcv_lock' = 0
    /\ rth' = [rth EXCEPT ![t] = "dispatch"]
    /\ UNCHANGED << thrRouter, thrOther, stopVars >>

\* _receiver: self._dispatch(msg), then the next receive().
ThrDispatch(t) ==
    /\ rth[t] = "dispatch"
    /\ rth' = [rth EXCEPT ![t] = "lock"]
    /\ UNCHANGED << thrFixed, stopVars, rcv_lock >>

\* _read_some_data: select() lists the stop pipe: ReceiveStopped leaves the
\* section, _receiver catches it and the thread ends.
ThrReceiveStopped(t) ==
    /\ rth[t] = "in" /\ conn_open /\ stop_pipe > 0
    /\ rcv_lock' = 0
    /\ rth' = [rth EXCEPT ![t] = "stopped"]
    /\ UNCHANGED << thrFixed, stopVars >>

\* _read_some_data: unwrap_read raises ConnectionResetError, or select()
\* raises on the closed selector: the exception leaves the section and
\* ends the thread.
ThrReceiveFails(t) ==
    /\ rth[t] = "in"
    /\ rcv_lock' = 0
    /\ rth' = [rth EXCEPT ![t] = "failed"]
    /\ UNCHANGED << thrFixed, stopVars >>

\* stop(): self.conn.interrupt()
ThrInterrupt(r) ==
    /\ spc = [router |-> r, at |-> "in"]
    /\ stop_pipe' = stop_pipe + 1
    /\ spc' = [spc EXCEPT !.at = "join"]
    /\ UNCHANGED << thrFixed, thrVars, conn_open >>

\* stop(): self._rcv_thread.join(timeout=10), the thread has ended.
ThrJoin(r) ==
    /\ spc = [router |-> r, at |-> "join"] /\ rth[r] \in ThreadEnded
    /\ spc' = [spc EXCEPT !.at = "reset"]
    /\ UNCHANGED << thrFixed, thrVars, stop_pipe, conn_open >>

\* stop(): the ten seconds of the join are over, the thread still runs.
ThrJoinTimeout(r) ==
    /\ spc = [router |-> r, at |-> "join"] /\ rth[r] \notin ThreadEnded
    /\ spc' = [spc EXCEPT !.at = "reset"]
    /\ UNCHANGED << thrFixed, thrVars, stop_pipe, conn_open >>

\* stop(): self.conn.reset_interrupt()
ThrResetInterrupt(r) ==
    /\ spc = [router |-> r, at |-> "reset"]
    /\ stop_pipe' = reset_pipe(stop_pipe)
    /\ spc' = [spc EXCEPT !.at = "stopped"]
    /\ UNCHANGED << thrFixed, thrVars, conn_open >>

\* open_dbus_router: with DBusRouter(conn) as router -- __init__ starts
\* the receiver thread of the second router.
ThrRouterStart ==
    /\ spc = [router |-> 1, at |-> "stopped"]
    /\ spc' = [router |-> 2, at |-> "in"]
    /\ rth' = [rth EXCEPT ![2] = "lock"]
    /\ UNCHANGED << thrFixed, stop_pipe, conn_open, rcv_lock >>

\* open_dbus_router: the connection's __exit__: close().
ThrConnClose ==
    /\ spc = [router |-> 2, at |-> "stopped"]
    /\ stop_pipe' = stop_pipe + 1
    /\ conn_open' = FALSE
    /\ spc' = [spc EXCEPT !.at = "closed"]
    /\ UNCHANGED << thrFixed, thrVars >>

NextThreads ==
    \/ \E t \in Routers : ThrAcquire(t)
    \/ \E t \in Routers : ThrReceive(t)
    \/ \E t \in Routers : ThrDispatch(t)
    \/ \E t \in Routers : ThrReceiveStopped(t)
    \/ \E t \in Routers : ThrReceiveFails(t)
    \/ \E r \in Routers : ThrInterrupt(r)
    \/ \E r \in Routers : ThrJoin(r)
    \/ \E r \in Routers : ThrJoinTimeout(r)
    \/ \E r \in Routers : ThrResetInterrupt(r)
    \/ ThrRouterStart
    \/ ThrConnClose

SpecThreads == InitThreads /\ [][NextThreads]_vars

\* ------------------------------------------------------------------
\* auth.py: a SASLParser that is fed the bytes of the bus in up to
\* MaxFeeds calls.  sock_rx holds the pieces still to be fed, received
\* the bytes fed so far and oexc the exception of the last feed.

MaxFeeds == 3

InitSasl ==
    /\ adapter = "asyncio"
    /\ RouterIdle /\ FdIdle /\ RaceIdle /\ LibIdle
    /\ sock_rx \in UNION { Chunkings(b, MaxFeeds) : b \in AuthStreams }
    /\ sock_tx = << >>
    /\ auth_parser = NewSASLParser
    /\ conn_parser = NewParser
    /\ received = << >>
    /\ unique_name = ""
    /\ opc = "feeding"
    /\ oexc = NoExc

\* auth_parser.feed(data)
SaslFeed ==
    /\ opc = "feeding" /\ sock_rx # << >>
    /\ LET r == feed(auth_parser, Head(sock_rx))
       IN  /\ auth_parser' = [buffer |-> r.buffer,
                              authenticated |-> r.authenticated,
                              error |-> r.error]
           /\ oexc' = [type |-> r.exc, arg |-> << >>]
    /\ sock_rx' = Tail(sock_rx)
    /\ received' = received \o Head(sock_rx)
    /\ UNCHANGED << openFixed, sock_tx, conn_parser, unique_name, opc >>

NextSasl == SaslFeed

SpecSasl == InitSasl /\ [][NextSasl]_vars

\* ------------------------------------------------------------------
\* The serial a waiter is registered under and the serial in the header
\* of the message written, for concurrent send and send_and_get_reply
\* calls on one router (asyncio, trio, threading).  A step of a caller runs
\* from one point where another task or thread can run to the next.
\* pc[c] is "idle", "lock" (asking for send_lock), "locked", "wait" (the
\* reply is awaited) or "done"; serial[c] is the serial of the waiter.

HdrAdapters == {"asyncio", "trio", "threading"}

InitHeader ==
    /\ adapter \in HdrAdapters
    /\ outgoing_serial = IF adapter = "trio" THEN 0 ELSE 1
    /\ reply_futures = EmptyMap
    /\ fut = [c \in Callers |-> NewFuture]
    /\ filters = EmptyMap
    /\ filter_ids = 0
    /\ rcv = "running"
    /\ pc = [c \in Callers |-> "idle"]
    /\ kind = [c \in Callers |-> "send"]
    /\ mtype = [c \in Callers |-> "method_call"]
    /\ serial = [c \in Callers |-> 0]
    /\ outcome = [c \in Callers |-> Outcome("none")]
    /\ result = [c \in Callers |-> NoMsg]
    /\ wire = << >>
    /\ send_lock = 0
    /\ lock_q = << >>
    /\ nrecv = 0
    /\ OpenIdle /\ FdIdle /\ RaceIdle
    /\ FilterIdle /\ StopIdle /\ WrapIdle /\ RuleIdle /\ ThrIdle /\ HdrIdle

hdrFixed == << openVars, fdVars, raceVars, filterVars, stopVars, wrapVars,
               ruleVars, thrVars, adapter, fut, filters, filter_ids, rcv,
               mtype, outcome, result, lock_q, nrecv >>

\* (a waiter registered under the present value of the counter)
trio_predict_present(n) == n

\* trio send_and_get_reply: serial = self._conn.outgoing_serial + 1
trio_predict(n) == n + 1

\* send_and_get_reply up to the request for send_lock.  trio: the serial
\* is predicted, the waiter registered, and DBusConnection.send increments
\* the counter and writes it to message.header.serial, with no checkpoint
\* in between.  asyncio, threading: serial = next(outgoing_serial), the
\* waiter is registered and the serial handed to send(message, serial=).
HdrSendAndGetReply(c) ==
    /\ pc[c] = "idle" /\ outgoing_serial < MaxAssigned
    /\ kind' = [kind EXCEPT ![c] = "sagr"]
    /\ IF adapter = "trio"
       THEN /\ serial' = [serial EXCEPT ![c] = trio_predict(outgoing_serial)]
            /\ outgoing_serial' = trio_incr(outgoing_serial)
            /\ hdr' = [hdr EXCEPT ![c] = trio_incr(outgoing_serial)]
       ELSE /\ serial' = [serial EXCEPT ![c] = outgoing_serial]
            /\ outgoing_serial' = count_next(outgoing_serial)
            /\ hdr' = [hdr EXCEPT ![c] = outgoing_serial]
    /\ reply_futures' = Put(reply_futures, serial'[c], c)
    /\ pc' = [pc EXCEPT ![c] = "lock"]
    /\ UNCHANGED << hdrFixed, wire, send_lock >>

\* send up to the request for send_lock.  trio: the counter is incremented
\* and written to the header; threading: serial = next(outgoing_serial)
\* and message.serialise(serial=serial); asyncio: nothing before the lock.
HdrSend(c) ==
    /\ pc[c] = "idle" /\ outgoing_serial < MaxAssigned
    /\ kind' = [kind EXCEPT ![c] = "send"]
    /\ IF adapter = "trio"
       THEN /\ outgoing_serial' = trio_incr(outgoing_serial)
            /\ hdr' = [hdr EXCEPT ![c] = trio_incr(outgoing_serial)]
       ELSE IF adapter = "threading"
       THEN /\ outgoing_serial' = count_next(outgoing_serial)
            /\ hdr' = [hdr EXCEPT ![c] = outgoing_serial]
       ELSE /\ outgoing_serial' = outgoing_serial
            /\ hdr' = [hdr EXCEPT ![c] = 0]
    /\ pc' = [pc EXCEPT ![c] = "lock"]
    /\ UNCHANGED << hdrFixed, reply_futures, serial, wire, send_lock >>

\* with / async with self.send_lock: any caller that asks may be the
\* next to get the free lock.
HdrAcquire(c) ==
    /\ pc[c] = "lock" /\ send_lock = 0
    /\ send_lock' = c
    /\ pc' = [pc EXCEPT ![c] = "locked"]
    /\ UNCHANGED << hdrFixed, hdrVars, outgoing_serial, reply_futures, kind,
                    serial, wire >>

\* Inside the lock the message is serialised and written.  asyncio with
\* no serial given: serial = next(self.outgoing_serial) comes here.
HdrWrite(c) ==
    /\ pc[c] = "locked" /\ send_lock = c
    /\ LET taken == adapter = "asyncio" /\ kind[c] = "send"
           s == IF taken THEN outgoing_serial ELSE hdr[c]
       IN  /\ outgoing_serial' = IF taken THEN count_next(outgoing_serial)
                                 ELSE outgoing_serial
           /\ hdr' = [hdr EXCEPT ![c] = s]
           /\ wire' = Written(c, s, "method_call")
    /\ send_lock' = 0
    /\ pc' = [pc EXCEPT ![c] = IF kind[c] = "sagr" THEN "wait" ELSE "done"]
    /\ UNCHANGED << hdrFixed, reply_futures, kind, serial >>

\* The call is over: send returned, or the wait for the reply ended and
\* the finally clause took the waiter out of the table.
HdrReturn(c) ==
    /\ pc[c] \in {"wait", "done"}
    /\ reply_futures' = IF kind[c] = "sagr" THEN Drop(reply_futures, serial[c])
                        ELSE reply_futures
    /\ pc' = [pc EXCEPT ![c] = "idle"]
    /\ UNCHANGED << hdrFixed, hdrVars, outgoing_serial, kind, serial, wire,
                    send_lock >>

NextHeader ==
    \/ \E c \in Callers : HdrSendAndGetReply(c)
    \/ \E c \in Callers : HdrSend(c)
    \/ \E c \in Callers : HdrAcquire(c)
    \/ \E c \in Callers : HdrWrite(c)
    \/ \E c \in Callers : HdrReturn(c)

SpecHeader == InitHeader /\ [][NextHeader]_vars

\* ------------------------------------------------------------------
\* integrate/asyncio.py: the legacy DBusProtocol.  The transport calls
\* data_received with the pieces of sock_rx, the application calls
\* send_message; sock_tx is what transport.write was given.  opc is the
\* authentication future: "pending", "result" or "exception"; oexc the
\* exception the last call raised.  A transport is not bound to stop
\* calling a protocol one of whose calls raised.

MaxSent == 2

InitProto ==
    /\ adapter = "asyncio"
    /\ RouterIdle /\ FdIdle /\ RaceIdle /\ LibIdle
    /\ sock_rx \in UNION { Chunkings(b, MaxFeeds) : b \in AuthStreams }
    /\ sock_tx = << "AUTH" >>
    /\ auth_parser = NewSASLParser
    /\ conn_parser = NewParser
    /\ received = << >>
    /\ unique_name = ""
    /\ opc = "pending"
    /\ oexc = NoExc

Raised(x) == [type |-> x, arg |-> << >>]

\* data_received(data) until authentication has succeeded, and
\* data_received_post_auth(data), which takes its place in _authenticated
\* once set_result has returned.
ProtoDataReceived ==
    /\ sock_rx # << >>
    /\ sock_rx' = Tail(sock_rx)
    /\ received' = received \o Head(sock_rx)
    /\ IF opc = "result"
       THEN /\ conn_parser' = [conn_parser EXCEPT !.buf = @ \o Head(sock_rx)]
            /\ oexc' = NoExc
            /\ UNCHANGED << auth_parser, sock_tx, opc >>
       ELSE LET r == feed(auth_parser, Head(sock_rx))
                p == [buffer |-> r.buffer, authenticated |-> r.authenticated,
                      error |-> r.error]
            IN  /\ auth_parser' = p
                /\ IF r.exc # ""
                   THEN /\ oexc' = Raised(r.exc)
                        /\ UNCHANGED << sock_tx, opc, conn_parser >>
                   ELSE IF p.authenticated
                   THEN /\ sock_tx' = Append(sock_tx, "BEGIN")
                        /\ IF opc = "pending"
                           THEN /\ opc' = "result"
                                /\ conn_parser' = [conn_parser EXCEPT
                                                     !.buf = @ \o p.buffer]
                                /\ oexc' = NoExc
                           ELSE /\ oexc' = Raised("InvalidStateError")
                                /\ UNCHANGED << opc, conn_parser >>
                   ELSE IF Truthy(p.error)
                   THEN /\ IF opc = "pending"
                           THEN opc' = "exception" /\ oexc' = NoExc
                           ELSE opc' = opc /\ oexc' = Raised("InvalidStateError")
                        /\ UNCHANGED << sock_tx, conn_parser >>
                   ELSE /\ oexc' = NoExc
                        /\ UNCHANGED << sock_tx, opc, conn_parser >>
    /\ UNCHANGED << openFixed, unique_name >>

\* send_message(message)
ProtoSendMessage ==
    /\ Cardinality({i \in 1..Len(sock_tx) : sock_tx[i] = "MSG"}) < MaxSent
    /\ IF opc = "pending"
       THEN /\ oexc' = Raised("RuntimeError")
            /\ UNCHANGED sock_tx
       ELSE /\ sock_tx' = Append(sock_tx, "MSG")
            /\ oexc' = NoExc
    /\ UNCHANGED << openFixed, sock_rx, auth_parser, conn_parser, received,
                    unique_name, opc >>

NextProto ==
    \/ ProtoDataReceived
    \/ ProtoSendMessage

SpecProto == InitProto /\ [][NextProto]_vars

\* ============================================================== claims
IsReply(m) == m.type \in {"method_return", "error"}

\* The receiver task/thread of a router handles message m in this step.
RouterDispatches(m) == AioDispatch(m) \/ TrioDispatch(m) \/ ThDispatch(m)

\* The blocking connection receives message m in this step.
BlockingReceives(m) == BlkRecvMessages(m) \/ \E c \in Callers : BlkReceive(c, m)

\* C1: a send_and_get_reply whose wait for the reply was ended by the
\* receiver loop stopping (its future raised NoReplyError) ends by raising
\* NoReplyError and no other exception.
C1_WaiterEndsWithNoReplyError ==
    \A c \in Callers :
        (kind[c] = "sagr" /\ pc[c] = "done"
           /\ "NoReplyError" \in {outcome[c].how, outcome[c].ctx})
            => outcome[c].how = "NoReplyError"

\* C2: when a method_return or error whose reply_serial is the serial of a
\* pending call is dispatched, no filter queue changes, no other call's
\* future or result receives the message, and the waiter's future, when
\* still pending, is completed with the message.
C2_ReplyGoesToItsWaiterOnly ==
    [][ \A m \in Msgs :
          /\ (IsReply(m) /\ m.reply_serial \in DOMAIN reply_futures
                /\ RouterDispatches(m))
             => LET w == reply_futures[m.reply_serial]
                IN  /\ filters' = filters
                    /\ \A c \in Callers \ {w} : fut'[c].val = fut[c].val
                    /\ result' = result
                    /\ fut[w].st = "pending"
                          => fut'[w].st = "result" /\ fut'[w].val = m
          /\ \A c \in Callers :
                (IsReply(m) /\ m.reply_serial = serial[c] /\ BlkReceive(c, m))
                => /\ filters' = filters
                   /\ result' = [result EXCEPT ![c] = m]
      ]_vars

\* A reply was given to a waiter although a registered filter with room
\* in its queue matches it.
C2_Witness ==
    \E c \in Callers, f \in DOMAIN filters :
        /\ outcome[c].how = "reply" /\ IsReply(result[c])
        /\ matches(filters[f].rule, result[c])
        /\ filters[f].q = << >>
        /\ \E d \in Callers \ {c} : pc[d] = "wait" /\ fut[d].st = "pending"

\* C3: a send_and_get_reply that has finished has no entry in the pending
\* table, and the table is empty once no call is in progress.
C3_FinishedCallNotPending ==
    /\ \A c \in Callers :
          (kind[c] = "sagr" /\ pc[c] = "done")
              => serial[c] \notin DOMAIN reply_futures
    /\ (\A c \in Callers : pc[c] \in {"idle", "done"})
          => reply_futures = EmptyMap

\* Two calls have finished, one with its reply and one by a timeout or a
\* cancellation, both after having been registered.
C3_Witness ==
    \E c, d \in Callers :
        /\ pc[c] = "done" /\ outcome[c].how = "reply" /\ fut[c].st = "result"
        /\ pc[d] = "done" /\ outcome[d].how \in {"Cancelled", "TimeoutError"}
        /\ serial[d] # 0 /\ adapter # "blocking"

\* C4: a method_return or error whose reply_serial belongs to a call that
\* was already given its reply is handled as an unsolicited message (it is
\* offered to the matching filters, no future changes) and the receiver
\* loop keeps running.
C4_SecondReplyIsUnsolicited ==
    [][ \A m \in Msgs :
          (/\ IsReply(m) /\ m.reply_serial \in DOMAIN reply_futures
           /\ fut[reply_futures[m.reply_serial]].st = "result"
           /\ RouterDispatches(m))
          => /\ rcv' = rcv
             /\ fut' = fut
             /\ filters' = put_matching(filters, m)
      ]_vars

\* C5: the message a send_and_get_reply returns is a method_return or an
\* error.
C5_OnlyRepliesAreReturned ==
    \A c \in Callers :
        outcome[c].how = "reply" => result[c].type \in {"method_return", "error"}

\* C6: a message received while a matching filter's queue is at capacity
\* leaves that queue as it was.
C6_FullQueueKeepsItsMessages ==
    [][ \A m \in Msgs :
          (RouterDispatches(m) \/ BlockingReceives(m))
          => \A f \in DOMAIN filters :
                (matches(filters[f].rule, m) /\ Len(filters[f].q) = filters[f].cap)
                    => filters'[f].q = filters[f].q
      ]_vars

\* C7: a received message that no waiter is given is appended to the queue
\* of every filter whose rule matches it (when the queue has room) and
\* leaves the queue of every other filter unchanged.
C7_UnclaimedGoesToMatchingFilters ==
    [][ \A m \in Msgs :
          (/\ RouterDispatches(m) \/ BlockingReceives(m)
           /\ result' = result
           /\ \A c \in Callers :
                 fut'[c] = fut[c] \/ ~ (fut'[c].st = "result" /\ fut'[c].val = m))
          => \A f \in DOMAIN filters :
                IF matches(filters[f].rule, m)
                THEN Len(filters[f].q) < filters[f].cap
                        => filters'[f].q = Append(filters[f].q, m)
                ELSE filters'[f].q = filters[f].q
      ]_vars

\* C8: a send_and_get_reply given a message that is no method_call ends
\* with TypeError and has taken no serial (so it registered no waiter and
\* wrote nothing).
C8_NonCallRejected ==
    \A c \in Callers :
        (kind[c] = "sagr" /\ pc[c] # "idle" /\ mtype[c] # "method_call")
            => /\ outcome[c].how = "TypeError"
               /\ serial[c] = 0
               /\ \A i \in DOMAIN wire : wire[i].by # c

\* C9: every serial the connection assigns is positive and greater than
\* every serial assigned before, and each outstanding send_and_get_reply
\* that is registered holds the table entry of its own serial.
C9_SerialsIncreaseAndAreUnique ==
    /\ [][ \A c \in Callers :
             serial'[c] # serial[c]
                => serial'[c] > 0 /\ \A d \in Callers : serial'[c] > serial[d]
       ]_vars
    /\ [](\A c \in Callers :
             (kind[c] = "sagr" /\ serial[c] \in DOMAIN reply_futures)
                 => reply_futures[serial[c]] = c)
    /\ [](\A c, d \in Callers :
             (c # d /\ serial[c] # 0) => serial[c] # serial[d])

\* Two send_and_get_reply calls wait at once, both registered.
C9_Witness ==
    \E c, d \in Callers :
        /\ c # d
        /\ pc[c] = "wait" /\ pc[d] = "wait"
        /\ serial[c] \in DOMAIN reply_futures
        /\ serial[d] \in DOMAIN reply_futures

\* C10: every serial the connection assigns is a non-zero u32, and the
\* serial assigned after 2^32 - 1 is 1.
C10_SerialIsNonZeroU32 ==
    /\ \A i \in DOMAIN wire : FitsU32(wire[i]) /\ wire[i] # Wide(0, 0)
    /\ \A i \in DOMAIN wire :
          (i > 1 /\ wire[i - 1] = Wide(Half - 1, Half - 1))
              => wire[i] = Wide(0, 1)

\* C11: with concurrent callers of send on one connection (threading,
\* asyncio, trio) the pieces of one serialised message are next to each
\* other on the wire: no piece of another message lies between two pieces
\* of the same message.
C11_MessageBytesContiguous ==
    \A i, j, k \in DOMAIN wire :
        (i < j /\ j < k /\ wire[i].serial = wire[k].serial)
            => wire[j].serial = wire[i].serial

\* A message is half written while another caller, which already called
\* send, is held back by the lock.
C11_Witness ==
    \E c, d \in Callers :
        /\ c # d /\ send_lock = c /\ pc[d] = "lock"
        /\ PartsSent(c) = 1 /\ Len(wire) > MsgParts

\* C12: messages reach the wire in the order of their serials: the first
\* piece of a message with a larger serial never precedes a piece of a
\* message with a smaller serial.
C12_WireInSerialOrder ==
    \A i, j \in DOMAIN wire : i < j => wire[i].serial <= wire[j].serial

\* The first complete (CRLF-terminated) line of b that is not blank, or
\* "None" when b has none.
RECURSIVE FirstNonBlankLine(_)
FirstNonBlankLine(b) ==
    IF ~ HasCRLF(b) THEN "None"
    ELSE LET i == FirstCRLF(b)
         IN  IF i = 1
             THEN FirstNonBlankLine(SubSeq(b, 3, Len(b)))
             ELSE SubSeq(b, 1, i - 1)

\* b holds a complete line that begins with 'OK '.
RECURSIVE HasOKLine(_)
HasOKLine(b) ==
    /\ HasCRLF(b)
    /\ LET i == FirstCRLF(b)
       IN  \/ StartsWithOK(SubSeq(b, 1, i - 1))
           \/ HasOKLine(SubSeq(b, i + 2, Len(b)))

\* The bytes of b that follow its first complete 'OK ' line.
RECURSIVE AfterOK(_)
AfterOK(b) ==
    IF ~ HasCRLF(b) THEN << >>
    ELSE LET i == FirstCRLF(b)
             rest == SubSeq(b, i + 2, Len(b))
         IN  IF StartsWithOK(SubSeq(b, 1, i - 1)) THEN rest ELSE AfterOK(rest)

IsPrefix(a, b) == Len(a) <= Len(b) /\ a = SubSeq(b, 1, Len(a))

\* C13: opening a connection writes the NUL byte with the AUTH line, then
\* BEGIN, then the Hello call, in this order; BEGIN is written only after
\* an OK line was received, and the connection is returned only with
\* unique_name set from the Hello reply.
C13_OpenWritesInOrder ==
    /\ IsPrefix(sock_tx, << "AUTH", "BEGIN", "Hello" >>)
    /\ Len(sock_tx) >= 2 => HasOKLine(received)
    /\ opc = "returned" =>
          /\ sock_tx = << "AUTH", "BEGIN", "Hello" >>
          /\ unique_name = BusName
          /\ \E i \in DOMAIN conn_parser.parsed : conn_parser.parsed[i] = "H"

\* The connection has been returned, with its name.
C13_Witness ==
    opc = "returned" /\ unique_name = BusName /\ Len(sock_tx) = 3

\* C14: once the bytes fed to SASLParser.feed hold a complete non-blank
\* line, a line beginning 'OK ' has set authenticated; any other line has
\* set error to that line, feed has returned without raising, and
\* authenticated is set only if an OK line was fed too.
C14_FeedDecidesOnCompleteLine ==
    LET L == FirstNonBlankLine(received)
    IN  (opc # "start" /\ L # "None") =>
            IF StartsWithOK(L)
            THEN auth_parser.authenticated
            ELSE /\ auth_parser.error = L
                 /\ oexc.type # "ValueError"
                 /\ auth_parser.authenticated => HasOKLine(received)

\* C15: when the first line the bus answers with is not an OK line, the
\* opening call has failed with AuthenticationError carrying that line,
\* and BEGIN has not been written.
C15_RejectionRaisesAuthenticationError ==
    LET L == FirstNonBlankLine(received)
    IN  (opc # "start" /\ L # "None" /\ ~ StartsWithOK(L)) =>
            /\ opc = "failed"
            /\ oexc = [type |-> "AuthenticationError", arg |-> L]
            /\ Len(sock_tx) = 1

\* C16: when the connection is returned, the message parser has been
\* given every byte received after the OK line, in the order of arrival:
\* what it has parsed followed by what it still holds is that byte stream.
C16_PostOkBytesReachParser ==
    opc = "returned" =>
        conn_parser.parsed \o conn_parser.buf = AfterOK(received)

\* C17: over every sequence of close, to_raw_fd, to_file, to_socket, with
\* block exit and finalisation the wrapper closes the descriptor at most
\* once and never once a to_* conversion has handed it over; a finalised
\* wrapper has either closed it or handed it over, never both and never
\* neither; and finalising a wrapper that still holds the descriptor
\* closes it and issues the ResourceWarning.
C17_ExactlyOneDisposal ==
    /\ [](/\ closes <= 1
          /\ owner # "wrapper" => closes = 0
          /\ finalised => (closes = 1) # (owner # "wrapper")
          /\ finalised => fd \in {CLOSED, CONVERTED})
    /\ [][/\ closes' # closes => (desc_open /\ owner = "wrapper")
          /\ (FdDel /\ fd >= 0) =>
                (closes' = closes + 1 /\ fd_warned' /\ fd' = CLOSED)]_vars

\* A wrapper that was neither closed nor converted has been finalised.
C17_Witness ==
    finalised /\ fd_warned /\ closes = 1 /\ fd_call.op = "__del__"

\* C18: close on a wrapper that is already closed does nothing: it does
\* not raise, closes nothing and changes nothing; close on a wrapper
\* converted by a to_* method raises RuntimeError and closes nothing.
C18_CloseIsIdempotent ==
    [][/\ (FdClose /\ fd = CLOSED) =>
            /\ fd_call'.exc = ""
            /\ UNCHANGED << fd, closes, owner >>
       /\ (FdClose /\ fd = CONVERTED) =>
            /\ fd_call'.exc = "RuntimeError"
            /\ UNCHANGED << fd, closes, owner >>]_vars

\* close was called on a wrapper that close had closed before.
C18_Witness ==
    /\ fd_call = Call("close", "pass", "") /\ fd = CLOSED /\ closes = 1
    /\ ~ finalised

\* Caller c has sent its call and then gave up waiting for the reply: it
\* was cancelled or timed out, whether or not its cleanup has run yet.
GaveUpAfterSending(c) ==
    /\ kind[c] = "sagr"
    /\ \E i \in DOMAIN wire : wire[i].by = c /\ wire[i].serial = serial[c]
    /\ \/ pc[c] = "cancelled"
       \/ /\ pc[c] = "done"
          /\ {outcome[c].how, outcome[c].ctx} \cap
                {"Cancelled", "TimeoutError"} # {}

\* C19: a reply to a call that was cancelled or timed out after it was
\* sent, arriving before or after the waiter's cleanup, completes no
\* future, is put on the matching filters' queues only, and leaves the
\* receiver running.
C19_LateReplyGoesToFiltersOnly ==
    [][\A m \in Msgs, c \in Callers :
          (RouterDispatches(m) /\ IsReply(m) /\ m.reply_serial = serial[c]
              /\ GaveUpAfterSending(c))
          => (fut' = fut /\ filters' = put_matching(filters, m)
                /\ rcv' = rcv)]_vars

\* C20: under the threaded adapter no interleaving of the receiver's
\* dispatch with application threads that register or remove a waiter or
\* add or remove a filter makes a table access fail: the receiver thread
\* is never ended by a KeyError from the pending-reply table or a
\* RuntimeError from iterating the filter table.
C20_TablesAccessedAtomically ==
    rexc \notin {"KeyError", "RuntimeError"}

\* C21: once the receiver of a router has ended (the router was closed, or
\* the loop ended on an exception), every registered filter channel has
\* been told of it: a consumer waiting on the channel finds something to
\* take instead of waiting for ever.  (Nothing is put on a channel after
\* the receiver has ended, so an empty channel stays empty.)
C21_EndedReceiverTellsFilterChannels ==
    (adapter \in {"asyncio", "threading"} /\ rcv = "done") =>
        \A f \in DOMAIN filters : filters[f].q # << >>

\* C22: remove_filter(id), or closing the filter's handle, for a filter
\* that is registered succeeds and leaves the filter out of the table (and
\* dispatch walks the table only, so nothing more is put on its channel),
\* with every other filter as it was.
C22_RemovedFilterIsUnregistered ==
    [][\A f \in DOMAIN filters :
          (/\ fcall' # fcall
           /\ fcall'.op \in {"remove_filter", "close"}
           /\ fcall'.id = f)
          => /\ fcall'.exc = ""
             /\ f \notin DOMAIN filters'
             /\ \A g \in DOMAIN filters \ {f} :
                   g \in DOMAIN filters' /\ filters'[g] = filters[g]]_vars

\* C30: a filter made with filter(rule, queue=q) collects into q itself,
\* whatever q holds when it is passed; a new queue (of size bufsize) is
\* made only for a caller that passed none.
C30_PassedQueueIsTheFilterQueue ==
    \A f \in DOMAIN chan : chan[f].same = chan[f].given

\* C23: leaving a threaded router interrupts the receiver thread, waits
\* until it has ended, and only then closes the transport: once stop() has
\* returned the thread has exited, the selector and the socket are closed
\* under no running receiver, and no message is received and dispatched
\* any more.
C23_StopEndsReceiverBeforeClose ==
    /\ [](spc \in {"stopped", "closed"} => rcv = "done")
    /\ [][/\ (conn_open /\ ~ conn_open') => rcv = "done"
          /\ spc \in {"stopped", "closed"} => nrecv' = nrecv]_vars

C25_ProxyRaisesRouterReturns ==
    /\ wcall.op = "proxy" =>
          IF wcall.arg.reply.type = "error"
          THEN /\ wcall.exc = "DBusErrorResponse"
               /\ wcall.name = wcall.arg.reply.error_name
               /\ wcall.data = wcall.arg.reply.body
          ELSE /\ wcall.exc = ""
               /\ wcall.ret = "tuple"
               /\ wcall.body = wcall.arg.reply.body
    /\ wcall.op = "send_and_get_reply" =>
          /\ wcall.exc = ""
          /\ wcall.ret = "Message"
          /\ wcall.msg = wcall.arg.reply

\* C26: new_method_call sets path, member and destination and raises
\* ValueError for an address without bus name; new_signal sets path,
\* interface and member and raises ValueError for an address without
\* interface; new_method_return and new_error set reply_serial to the
\* parent's serial, new_error error_name as well.
C26_WrappersSetRequiredFields ==
    /\ wcall.op = "new_method_call" =>
          IF wcall.arg.obj.bus_name = "None"
          THEN wcall.exc = "ValueError"
          ELSE /\ wcall.exc = "" /\ wcall.msg.type = "method_call"
               /\ wcall.msg.path = wcall.arg.obj.object_path
               /\ wcall.msg.member = wcall.arg.member
               /\ wcall.msg.destination = wcall.arg.obj.bus_name
    /\ wcall.op = "new_signal" =>
          IF wcall.arg.obj.interface = "None"
          THEN wcall.exc = "ValueError"
          ELSE /\ wcall.exc = "" /\ wcall.msg.type = "signal"
               /\ wcall.msg.path = wcall.arg.obj.object_path
               /\ wcall.msg.interface = wcall.arg.obj.interface
               /\ wcall.msg.member = wcall.arg.member
    /\ wcall.op = "new_method_return" =>
          /\ wcall.exc = "" /\ wcall.msg.type = "method_return"
          /\ wcall.msg.reply_serial = wcall.arg.parent
    /\ wcall.op = "new_error" =>
          /\ wcall.exc = "" /\ wcall.msg.type = "error"
          /\ wcall.msg.reply_serial = wcall.arg.parent
          /\ wcall.msg.error_name = wcall.arg.error_name

\* new_signal was called for an address without interface and raised.
C26_Witness ==
    /\ wcall.op = "new_signal"
    /\ wcall.arg.obj.interface = "None"
    /\ wcall.exc = "ValueError"

\* C27: a MatchRule given both path and path_namespace is not built: the
\* constructor fails, and no rule has both conditions.
C27_PathAndNamespaceExclusive ==
    /\ ~ ({"path", "path_namespace"} \subseteq Keys(conditions))
    /\ (/\ mr_call.op = "MatchRule"
        /\ mr_call.arg.path # Unset
        /\ mr_call.arg.path_namespace # Unset) => mr_call.exc # ""

IsKey(t) == \E i \in 1..Len(SortedKeys) : SortedKeys[i] = t

IsComma(t) == t = ","

\* The orders in which the items of c can have been inserted.
Orders(c) ==
    {p \in [1..Len(c) -> {c[i] : i \in 1..Len(c)}] :
        \A i \in 1..Len(c) : \E j \in 1..Len(c) : p[j] = c[i]}

\* C28: the serialised rule is its key=value pairs joined by commas, the
\* keys in sorted order, every single quote of a value behind a
\* backslash; rules holding the same conditions serialise alike, in
\* whatever order the conditions were added.
C28_SerialiseSortedEscaped ==
    mr_call.op = "serialise" =>
        LET out == mr_call.ret
            ks == SelectSeq(out, IsKey)
        IN  /\ \A p \in Orders(conditions) : serialise(p) = out
            /\ Len(ks) = Len(conditions)
            /\ \A i \in 1..Len(ks) : ks[i] \in Keys(conditions)
            /\ \A i, j \in 1..Len(ks) : i < j => Rank(ks[i]) < Rank(ks[j])
            /\ \A i \in 1..Len(out) :
                  /\ IsKey(out[i]) => (i < Len(out) /\ out[i + 1] = "=")
                  /\ out[i] = "'" => (i > 1 /\ out[i - 1] = "\\")
                  /\ out[i] = "," => (i < Len(out) /\ IsKey(out[i + 1]))
            /\ conditions # << >> =>
                  Len(SelectSeq(out, IsComma)) = Len(conditions) - 1

\* A rule whose conditions were not added in sorted order, one of them
\* with a quote in its value, has been serialised.
C28_Witness ==
    /\ mr_call.op = "serialise"
    /\ \E i \in 1..(Len(conditions) - 1) :
          Rank(conditions[i].k) > Rank(conditions[i + 1].k)
    /\ \E i \in 1..Len(conditions), n \in 1..2 :
          n <= Len(conditions[i].v) /\ conditions[i].v[n] = "'"

\* What the documentation of add_arg_condition allows.
ValidArgCondition(argno, knd) ==
    /\ argno \in 0..63
    /\ knd \in {"string", "path", "namespace"}
    /\ knd = "namespace" => argno = 0

\* C29: add_arg_condition takes an argno of 0..63 with kind string, path
\* or namespace, namespace at argno 0 only; any other call fails with an
\* error and leaves the conditions as they were.
C29_ArgConditionValidated ==
    [][\A argno \in ArgNos, value \in Values, knd \in Kinds :
          AddArgCondition(argno, value, knd) =>
             IF ValidArgCondition(argno, knd)
             THEN /\ mr_call'.exc = ""
                  /\ arg_name(argno, knd) \in Keys(conditions')
             ELSE /\ mr_call'.exc # ""
                  /\ conditions' = conditions]_vars

\* The bytes of a sequence of reads, in order.
RECURSIVE Flat(_)
Flat(reads) == IF reads = << >> THEN << >> ELSE Head(reads) \o Flat(Tail(reads))

\* The messages whose every byte is in stream b, in the order sent.
WholeMessages(b) == [k \in 1..(Len(b) \div MsgParts) |-> b[(k - 1) * MsgParts + 1].m]

\* C31: receive hands out whole messages only, in the order the bus sent
\* them, and once the bus has closed the socket a receive that finds no
\* whole message fails with the adapter's end-of-stream error -- every
\* whole message has been handed out by then and the bytes of a message
\* that was begun stay in the parser.
C31_ReceiveWholeMessagesOrEndOfStream ==
    /\ IsPrefix(conn_parser.parsed, WholeMessages(received \o Flat(sock_rx)))
    /\ sock_rx = << >> =>
          /\ opc = "failed"
          /\ oexc.type \in {"EOFError", "EndOfChannel", "ConnectionResetError"}
          /\ conn_parser.parsed = WholeMessages(received)
          /\ Len(conn_parser.buf) < MsgParts

\* The socket was closed in the middle of a message that followed a whole
\* one: the receive failed after the whole one had been returned.
C31_Witness ==
    /\ opc = "failed"
    /\ conn_parser.parsed # << >>
    /\ conn_parser.buf # << >>

\* C32: after interrupt() and reset_interrupt() the stop pipe is empty, so
\* receive() works again: the receiver thread of the second router is
\* ended by ReceiveStopped only once that router's own stop() has
\* interrupted the connection.
C32_ReceiveWorksAfterReset ==
    /\ spc.at = "stopped" => stop_pipe = 0
    /\ rth[2] = "stopped" =>
          spc.router = 2 /\ spc.at \in {"join", "reset", "stopped", "closed"}

C32_Witness ==
    /\ rth[1] = "stopped"
    /\ spc = [router |-> 2, at |-> "in"]
    /\ rth[2] = "dispatch"

\* C38: at most one thread is inside the section of receive() that
\* rcv_lock guards, and it is the thread that holds the lock.
C38_OneThreadInReceive ==
    /\ Cardinality({t \in Routers : rth[t] = "in"}) <= 1
    /\ \A t \in Routers : rth[t] = "in" => rcv_lock = t

C38_Witness ==
    /\ spc.router = 2
    /\ rth[1] = "in"
    /\ rth[2] = "lock"

\* C33: the parser after feeding a byte stream in pieces is the parser
\* after feeding the same bytes in one call: buffer, authenticated and
\* error do not depend on how the stream was split.
C33_FeedSplitIndependent ==
    LET one == feed(NewSASLParser, received)
    IN  auth_parser = [buffer |-> one.buffer,
                       authenticated |-> one.authenticated,
                       error |-> one.error]

\* C34: authenticated and error are never both set; once authenticated,
\* a parser stays authenticated and a feed only appends to its buffer.
C34_AuthenticatedExcludesError ==
    /\ [](~ (auth_parser.authenticated /\ Truthy(auth_parser.error)))
    /\ [][auth_parser.authenticated =>
            auth_parser' = [auth_parser EXCEPT
                              !.buffer = @ \o Head(sock_rx)]]_vars

\* C35: when the socket reaches the end of the stream before an OK line
\* was received, the authentication loop ends and opening the connection
\* fails with an error.
C35_EofEndsAuthentication ==
    (opc = "auth" /\ sock_rx = << >> /\ ~ auth_parser.authenticated)
        ~> (opc = "failed")

\* C36: a send_and_get_reply begun while the receiver of the router is not
\* running ends at once with an error and registers no waiter (asyncio,
\* trio, threading).
C36_NoWaiterWithoutReceiver ==
    [][\A c \in Callers :
          (/\ adapter \in {"asyncio", "trio", "threading"}
           /\ rcv = "done"
           /\ pc[c] = "idle" /\ pc'[c] # "idle" /\ kind'[c] = "sagr")
          => (/\ pc'[c] = "done"
              /\ outcome'[c].how # "none"
              /\ reply_futures' = reply_futures)]_vars

\* C37: while a send_and_get_reply waits for its reply, the waiter is
\* registered under the serial that stands in the header of the message
\* the call wrote, whatever other calls ran in between.
C37_WaiterSerialIsHeaderSerial ==
    \A c \in Callers :
        (kind[c] = "sagr" /\ pc[c] \in {"lock", "locked", "wait"}) =>
            /\ serial[c] \in DOMAIN reply_futures
            /\ reply_futures[serial[c]] = c
            /\ hdr[c] = serial[c]
            /\ pc[c] = "wait" =>
                  /\ wire # << >>
                  /\ \E i \in 1..Len(wire) :
                        wire[i].by = c /\ wire[i].serial = serial[c]

C37_Witness ==
    /\ adapter = "trio"
    /\ \E c, d \in Callers :
          /\ kind[c] = "sagr" /\ pc[c] = "wait"
          /\ kind[d] = "send" /\ pc[d] = "done"
          /\ hdr[d] < hdr[c]
          /\ \E i, j \in 1..Len(wire) :
                i < j /\ wire[i].by = d /\ wire[j].by = c

\* C39: closed and converted are terminal: no call on a wrapper that is
\* closed or converted changes its state.
C39_ClosedAndConvertedAreTerminal ==
    [][(fd \in {CLOSED, CONVERTED}) => (fd' = fd)]_vars

\* C40: a D-Bus message is written to the transport only when
\* authentication has succeeded: none while it is pending, none when it
\* ended in an error.
C40_MessagesOnlyAfterAuthentication ==
    (\E i \in 1..Len(sock_tx) : sock_tx[i] = "MSG") => opc = "result"


====
